---- MODULE Spec2Model ----
(***************************************************************************)
(* A model of the social-hub frontend: the client session guard of         *)
(* services/api.ts (token storage, local expiry check, authenticatedFetch, *)
(* the global auth-error callback), the Navbar's periodic check, the App   *)
(* component that registers the callback, and the Upload page's three-step *)
(* presigned upload.                                                       *)
(***************************************************************************)
EXTENDS Integers, Sequences, FiniteSets, TLC

(* ------------------------------ bounds ------------------------------- *)
\* largest expiry claim (in seconds) a modelled token carries
MaxExp == 1
\* number of authenticatedFetch invocations followed
MaxCalls == 1
\* number of closures App.useEffect registers
MaxHandlers == 2
\* number of upload attempts followed
MaxAttempts == 1
\* longest tags string typed or stored
MaxTagLen == 3
\* number of downloads of PostDetail under way at once
MaxDownloads == 1
\* number of Post records ever created
MaxPosts == 1
\* largest value a view or download counter is followed to
MaxCount == 2
\* number of upload slots issued
MaxSlots == 1
\* number of User records
MaxUsers == 2
\* number of times migration 001 is run against one database
MaxRuns == 2
\* number of 1.5 s timers of Profile.handleSaveProfile pending at once
MaxTimers == 1

(* ------------------------- program constants ------------------------- *)
\* exp is in seconds, Date.now() in milliseconds
MsPerSecond == 1000
\* the status authenticatedFetch treats as "unauthorized"
Unauthorized == 401

(* ------------------------------ values ------------------------------- *)
\* localStorage.getItem returns null when the key is absent
NoToken == [kind |-> "null"]
\* what decodeJWT returns when the token cannot be decoded
Null == [kind |-> "null"]
\* the module-level onAuthError starts as null
NoHandler == 0

\* the empty string, which localStorage stores and returns as it is
EmptyToken == [kind |-> "empty"]
\* "if (token)", "token &&", "!token": null and "" are falsy
Truthy(token) == token # NoToken /\ token # EmptyToken

\* JWT payloads: with an exp claim (seconds), or without one
Payloads == {[exp |-> e] : e \in 0..MaxExp} \cup {[sub |-> "u"]}
\* Stored strings: well-formed JWTs and strings decodeJWT cannot decode
Tokens == {[kind |-> "jwt", payload |-> p] : p \in Payloads} \cup {[kind |-> "garbage"]}

\* Instants of the millisecond clock the model visits: the instant before,
\* at and after every expiry the tokens carry
TimePoints == {0} \cup {e * MsPerSecond + d : e \in 1..MaxExp, d \in {-1, 0, 1}}

\* routes of App.tsx
Paths == {"/", "/login", "/signup", "/profile", "/upload"}
NoRedirect == "<none>"

\* HTTP statuses a server answers with
Statuses == {200, 401, 500}

VARIABLES
    now,          \* Date.now()
    accessToken,  \* localStorage 'access_token'
    onAuthError,  \* module-level callback of api.ts (a handler id, 0 = null)
    registered,   \* number of closures registered so far
    pathname,     \* window.location.pathname
    redirect,     \* ?redirect= parameter of the current URL
    calls,        \* authenticatedFetch invocations
    navbar,       \* Navbar component: mounted, isAuthenticated, its interval
    upload,       \* Upload page: its component state
    attempts,     \* the runs of Upload.handleUpload that reached the try block
    tagsIO,       \* the tags field: as typed, as sent with a confirmation, as read
    detail,       \* PostDetail page: its component state and timers
    signup,       \* Signup page: its component state and the run of its handler
    server,       \* the backend's tables and the object storage
    db,           \* the database schema and the runs of migration 001 against it
    profile       \* Profile page: its component state and the body it last sent

vars == <<now, accessToken, onAuthError, registered, pathname, redirect, calls, navbar,
          upload, attempts, tagsIO, detail, signup, server, db, profile>>

guardVars == <<onAuthError, registered, calls, navbar>>
uploadVars == <<upload, attempts>>
pageVars == <<tagsIO, detail, signup, server, db, profile>>

(* ------------------------- JWT token utilities ----------------------- *)
decodeJWT(token) ==
    IF token.kind = "jwt" THEN token.payload ELSE Null

isTokenExpiredAt_StrictlyAfter(token, t) ==
    LET decoded == decodeJWT(token) IN
    IF decoded = Null \/ "exp" \notin DOMAIN decoded THEN TRUE
    ELSE IF decoded.exp = 0 THEN TRUE
    ELSE t > decoded.exp * MsPerSecond

isTokenExpiredAt(token, t) ==
    LET decoded == decodeJWT(token) IN
    IF decoded = Null \/ "exp" \notin DOMAIN decoded THEN TRUE
    ELSE IF decoded.exp = 0 THEN TRUE
    ELSE t >= decoded.exp * MsPerSecond

isTokenExpired(token) == isTokenExpiredAt(token, now)

\* tokenManager.isAuthenticated()
isAuthenticated ==
    IF ~Truthy(accessToken) THEN FALSE ELSE ~isTokenExpired(accessToken)

(* ------------------------------ routing ------------------------------ *)
\* encodeURIComponent on the route paths: "/" is escaped as %2F
EncodeURIComponent(p) ==
    CASE p = "/"        -> "%2F"
      [] p = "/login"   -> "%2Flogin"
      [] p = "/signup"  -> "%2Fsignup"
      [] p = "/profile" -> "%2Fprofile"
      [] p = "/upload"  -> "%2Fupload"
      [] p = "/post/1"  -> "%2Fpost%2F1"

\* URLSearchParams.get percent-decodes the value; null when absent
SearchParamsGet(r) ==
    CASE r = NoRedirect   -> NoRedirect
      [] r = "%2F"        -> "/"
      [] r = "%2Flogin"   -> "/login"
      [] r = "%2Fsignup"  -> "/signup"
      [] r = "%2Fprofile" -> "/profile"
      [] r = "%2Fupload"  -> "/upload"
      [] r = "%2Fpost%2F1" -> "/post/1"
      [] r \in Paths     -> r

Redirects == {NoRedirect} \cup {EncodeURIComponent(p) : p \in Paths}

(* --------------------------- HTTP requests --------------------------- *)
HeaderNames == {"Content-Type", "Authorization"}

\* the Headers class stores names lower-cased
LowerCase(name) ==
    CASE name = "Content-Type"  -> "content-type"
      [] name = "Authorization" -> "authorization"
      [] OTHER                  -> name

\* new Headers(init) for a plain object init
NewHeaders(init) ==
    [n \in {LowerCase(k) : k \in DOMAIN init} |->
        init[CHOOSE k \in DOMAIN init : LowerCase(k) = n]]

\* headers.set(name, value)
HeadersSet(headers, name, value) ==
    [n \in DOMAIN headers \cup {LowerCase(name)} |->
        IF n = LowerCase(name) THEN value ELSE headers[n]]

NoHeaders == [n \in {} |-> <<>>]
JsonHeaders == [n \in {"Content-Type"} |-> <<"application/json">>]
Bearer(token) == <<"Bearer", token>>

\* the callers of authenticatedFetch and the options each passes
ApiOps == {"getCurrentUser", "updateProfile", "getPresignedUrl", "confirmUpload",
           "deletePost", "trackView", "trackDownload"}

ApiOptions(op) ==
    CASE op = "getCurrentUser"  -> [method |-> "GET",    headers |-> JsonHeaders, body |-> FALSE]
      [] op = "updateProfile"   -> [method |-> "PATCH",  headers |-> JsonHeaders, body |-> TRUE]
      [] op = "getPresignedUrl" -> [method |-> "POST",   headers |-> JsonHeaders, body |-> TRUE]
      [] op = "confirmUpload"   -> [method |-> "POST",   headers |-> JsonHeaders, body |-> TRUE]
      [] op = "deletePost"      -> [method |-> "DELETE", headers |-> NoHeaders,   body |-> FALSE]
      [] op = "trackView"       -> [method |-> "POST",   headers |-> JsonHeaders, body |-> FALSE]
      [] op = "trackDownload"   -> [method |-> "POST",   headers |-> JsonHeaders, body |-> FALSE]

\* the operations the guard specification issues (one per shape of options)
CalledOps == {"getCurrentUser", "updateProfile", "deletePost"}

NoRequest == [url |-> "<none>"]
SessionExpired == "Session expired. Please login again."
NetworkError == "Failed to fetch"

CallIds == 1..MaxCalls

\* an invocation: its position, the request it has in flight, the number of
\* requests it has sent, the status it was answered with, the handlers it
\* invoked and the error it rejected with; sentExpired records whether a
\* request left carrying a token that was locally expired at that instant
IdleCall == [pc |-> "idle", request |-> NoRequest, nsent |-> 0, sentExpired |-> FALSE,
             status |-> 0, invoked |-> <<>>, error |-> ""]

(* ---------------------------- Upload page ---------------------------- *)
\* the client-side ceiling: 50 * 1024 * 1024
MaxFileSize == 52428800

FileTypes == {"image/png", "text/plain"}
FileSizes == {MaxFileSize, MaxFileSize + 1}
Files == [type : FileTypes, size : FileSizes]
NoFile == [type |-> "<none>"]

\* file.type.startsWith("image/")
StartsWithImage_AnyType(type) == TRUE

StartsWithImage(type) ==
    CASE type = "image/png"  -> TRUE
      [] type = "text/plain" -> FALSE

TitleValues == {"", " ", "T"}
DescriptionValues == {"", "D"}

\* String.prototype.trim on the form values
Trim(str) == IF str = " " THEN "" ELSE str

\* response.ok
Ok(status) == status >= 200 /\ status <= 299

\* the detail field of the error body the backend sends with a status
ErrorDetail(status) ==
    CASE status = 401 -> "Could not validate credentials"
      [] OTHER        -> ""

\* new Error(error.detail || fallback).message
DetailOr(status, fallback) ==
    IF ErrorDetail(status) # "" THEN ErrorDetail(status) ELSE fallback

S3Failed == "S3 upload failed"

\* component state after useState(...) initialisers
InitialUpload == [mounted |-> TRUE, isAuthenticated |-> FALSE, selectedFile |-> NoFile,
                  preview |-> FALSE, title |-> "", description |-> "",
                  isUploading |-> FALSE, error |-> ""]
UnmountedUpload == [InitialUpload EXCEPT !.mounted = FALSE]

\* an attempt: its position, the values its closure captured, the requests it
\* sent in order, whether the token was locally expired when a token-bearing
\* request left, and the statuses it was answered with
NewAttempt(token, file) ==
    [pc |-> "slot", token |-> token, file |-> file, sent |-> <<"slot">>,
     sentExpired |-> isTokenExpired(token), slotStatus |-> -1, putStatus |-> -1,
     confirmStatus |-> -1]

(* -------------------------------- tags -------------------------------- *)
\* the characters a tags string is made of: the separator, a blank, a letter
TagChars == {",", " ", "a"}
TagStrings == UNION {[1..n -> TagChars] : n \in 0..MaxTagLen}

\* String.prototype.split(sep): always at least one part
RECURSIVE Split(_, _)
Split(str, sep) ==
    IF \A i \in 1..Len(str) : str[i] # sep
    THEN <<str>>
    ELSE LET i == CHOOSE k \in 1..Len(str) : str[k] = sep /\ \A j \in 1..(k - 1) : str[j] # sep
         IN  <<SubSeq(str, 1, i - 1)>> \o Split(SubSeq(str, i + 1, Len(str)), sep)

\* tag.trim(): blanks removed at both ends
RECURSIVE TrimTag(_)
TrimTag(tag) ==
    IF tag = <<>> THEN tag
    ELSE IF Head(tag) = " " THEN TrimTag(Tail(tag))
    ELSE IF tag[Len(tag)] = " " THEN TrimTag(SubSeq(tag, 1, Len(tag) - 1))
    ELSE tag

\* .map(tag => tag.trim())
MapTrim(parts) == [i \in 1..Len(parts) |-> TrimTag(parts[i])]

\* .filter(tag => tag.length > 0)
NonEmptyTag(tag) == Len(tag) > 0
FilterNonEmpty(parts) == SelectSeq(parts, NonEmptyTag)

\* JSON values of the tags key: a string, an array of strings, or the key left out
JsonString(str) == [kind |-> "string", value |-> str]
JsonArray(list) == [kind |-> "array", value |-> list]
Undefined == [kind |-> "undefined"]

\* Upload.handleUpload: the tags value of the confirm-upload body
UploadConfirmTags(tags) == JsonArray(FilterNonEmpty(MapTrim(Split(tags, ","))))

\* postsAPI.confirmUpload: JSON.stringify({ image_url, caption, title, tags })
ApiConfirmTags(tags) == tags

\* PostDetail.tagsArray: "" and undefined are falsy
tagsArray(post) ==
    IF post = Null THEN <<>>
    ELSE IF post.tags = Undefined THEN <<>>
    ELSE IF post.tags.value = <<>> THEN <<>>
    ELSE FilterNonEmpty(MapTrim(Split(post.tags.value, ",")))

NoBody == [url |-> "<none>"]

\* the values of the tags column a Post comes back with
PostTags == {Undefined} \cup {JsonString(str) : str \in TagStrings}

\* useState("") of Upload; no confirmation built, no post loaded
InitialTags == [tags |-> <<>>, body |-> NoBody, post |-> Null, tagsArray |-> <<>>]

(* ------------------------ pages and the backend ----------------------- *)
\* the route /post/:id of the one post the model follows
PostPath == "/post/1"

\* the Post of the lookup's answer (also what the feed hands over as
\* location.state.post), with the counters the page displays
LoadedPost == [id |-> 1, views |-> 0, downloads |-> 0]

\* the effects of a mounting component run once, or twice under <StrictMode>
\* in a development build
StrictEffectRuns == 2

\* PostDetail after its useState(...) initialisers (post starts as
\* location.state.post when the feed passed one). loads: lookups in flight;
\* viewCalls: trackView invocations in flight; fetching: image downloads in
\* flight; timers: pending 2 s timers; downloadCalls: trackDownload
\* invocations in flight. Since the page was opened: lookedUp, a lookup
\* succeeded; viewsSent, downloadsSent, the increment requests sent; clicks,
\* the clicks on Download; imagesOk and imagesFailed, the image fetches
\* answered with a 2xx status and the others; alerts, the alert() dialogs shown
InitialDetail(initialPost) ==
    [mounted |-> TRUE, post |-> initialPost, isLoading |-> TRUE, error |-> "",
     viewTracked |-> FALSE, loads |-> 0, lookedUp |-> FALSE, viewCalls |-> {}, viewsSent |-> 0,
     clicks |-> 0, fetching |-> 0, imagesOk |-> 0, imagesFailed |-> 0, timers |-> 0,
     downloadCalls |-> {},
     downloadsSent |-> 0, alerts |-> 0]
UnmountedDetail == [InitialDetail(Null) EXCEPT !.mounted = FALSE, !.isLoading = FALSE]
\* a run of a Signup handler: its position, the requests it sent in order,
\* the statuses they were answered with (-1: not answered) and the
\* access_token of the last answer
IdleRun == [pc |-> "idle", sent |-> <<>>, first |-> -1, second |-> -1, token |-> NoToken]

\* Signup after its useState(...) initialisers
InitialSignup == [mounted |-> TRUE, isLoading |-> FALSE, error |-> "",
                  form |-> IdleRun, google |-> IdleRun]
UnmountedSignup == [InitialSignup EXCEPT !.mounted = FALSE]

Passwords == {"secret123", "secret124"}
\* a caller of the backend: 0 when the request carries no valid token,
\* otherwise the id of the user the token names
Anonymous == 0

NoReply == [op |-> "<none>"]

\* the backend before any request: no user, no post, no slot issued, nothing
\* in object storage; last: the latest request and the answer it got
EmptyServer == [users |-> <<>>, posts |-> <<>>, issued |-> 0, objects |-> {}, last |-> NoReply]

\* a deleted Post record
DeletedPost == [deleted |-> TRUE]

\* a Post record as confirm-upload creates it: counters start at 0
NewPost(owner, key) ==
    [deleted |-> FALSE, user_id |-> owner, image |-> key, views |-> 0, downloads |-> 0]

\* a User record with a password hash and no external identity
PasswordUser(username, email) ==
    [username |-> username, email |-> email, password |-> TRUE, google_id |-> 0, bio |-> ""]

(* ------------------------- schema migration 001 ----------------------- *)
\* a column of a table: absent, or its type and constraints
NoColumn == [kind |-> "absent"]
Column(type, notNull, unique) ==
    [kind |-> "column", type |-> type, notNull |-> notNull, unique |-> unique]

\* a table that does not exist
NoTable == [kind |-> "absent"]
Table(columns, indexes) == [kind |-> "table", columns |-> columns, indexes |-> indexes]

\* the column definitions a database may hold before or after the migration
GoogleIdColumns == {NoColumn, Column("VARCHAR", FALSE, TRUE), Column("VARCHAR", FALSE, FALSE)}
PasswordColumns == {NoColumn, Column("VARCHAR", TRUE, FALSE), Column("VARCHAR", FALSE, FALSE)}
TextColumns == {NoColumn, Column("VARCHAR", FALSE, FALSE), Column("TEXT", FALSE, FALSE)}

UsersTables ==
    {NoTable} \cup
    {Table([google_id |-> g, password |-> p], i) :
        g \in GoogleIdColumns, p \in PasswordColumns, i \in SUBSET {"idx_users_google_id"}}

PostsTables ==
    {NoTable} \cup {Table([title |-> t, tags |-> g], {}) : t \in TextColumns, g \in TextColumns}

\* the schemas the migration may meet; an index needs its column
Schemas ==
    {s \in [users : UsersTables, posts : PostsTables] :
        (s.users # NoTable /\ s.users.indexes # {}) => s.users.columns.google_id # NoColumn}

\* the schema the application had before the migration was written
SchemaBefore001 ==
    [users |-> Table([google_id |-> NoColumn, password |-> Column("VARCHAR", TRUE, FALSE)], {}),
     posts |-> Table([title |-> NoColumn, tags |-> NoColumn], {})]

\* BEGIN: the transaction works on a copy of the schema; an error aborts it
Begin(schema) == [schema |-> schema, failed |-> FALSE]

\* ALTER TABLE t ADD COLUMN c ...: an error when the column exists
AddColumnIfNotExists_Unconditional(tx, table, column, definition) ==
    IF tx.failed THEN tx
    ELSE IF tx.schema[table] = NoTable THEN [tx EXCEPT !.failed = TRUE]
    ELSE IF tx.schema[table].columns[column] # NoColumn THEN [tx EXCEPT !.failed = TRUE]
    ELSE [tx EXCEPT !.schema[table].columns[column] = definition]

\* ALTER TABLE t ADD COLUMN IF NOT EXISTS c ...: skipped when the column
\* exists (whatever its definition); an error when the table is missing
AddColumnIfNotExists(tx, table, column, definition) ==
    IF tx.failed THEN tx
    ELSE IF tx.schema[table] = NoTable THEN [tx EXCEPT !.failed = TRUE]
    ELSE IF tx.schema[table].columns[column] # NoColumn THEN tx
    ELSE [tx EXCEPT !.schema[table].columns[column] = definition]

\* CREATE INDEX IF NOT EXISTS i ON t(c): skipped when an index of that name exists
CreateIndexIfNotExists(tx, table, index, column) ==
    IF tx.failed THEN tx
    ELSE IF tx.schema[table] = NoTable THEN [tx EXCEPT !.failed = TRUE]
    ELSE IF index \in tx.schema[table].indexes THEN tx
    ELSE IF tx.schema[table].columns[column] = NoColumn THEN [tx EXCEPT !.failed = TRUE]
    ELSE [tx EXCEPT !.schema[table].indexes = @ \cup {index}]

\* the DO block: DROP NOT NULL only when information_schema reports the
\* column users.password as not nullable
DropNotNullIfNotNullable(tx, table, column) ==
    IF tx.failed THEN tx
    ELSE IF tx.schema[table] = NoTable THEN tx
    ELSE IF tx.schema[table].columns[column] = NoColumn THEN tx
    ELSE IF ~tx.schema[table].columns[column].notNull THEN tx
    ELSE [tx EXCEPT !.schema[table].columns[column].notNull = FALSE]

\* COMMIT: the schema of the transaction, or the one it began with
Commit(schema, tx) == [schema |-> IF tx.failed THEN schema ELSE tx.schema, failed |-> tx.failed]

\* 001_add_google_oauth_and_title.sql, statement by statement
Migration001(schema) ==
    LET t0 == Begin(schema)
        t1 == AddColumnIfNotExists(t0, "users", "google_id", Column("VARCHAR", FALSE, TRUE))
        t2 == CreateIndexIfNotExists(t1, "users", "idx_users_google_id", "google_id")
        t3 == DropNotNullIfNotNullable(t2, "users", "password")
        t4 == AddColumnIfNotExists(t3, "posts", "title", Column("VARCHAR", FALSE, FALSE))
        t5 == AddColumnIfNotExists(t4, "posts", "tags", Column("VARCHAR", FALSE, FALSE))
    IN  Commit(schema, t5)

\* a database: its schema now, the schema it had at first and the outcome of
\* every run of the migration against it
Database(schema) == [schema |-> schema, initial |-> schema, history |-> <<>>]
InitialDatabase == Database(SchemaBefore001)

\* psql -f 001_add_google_oauth_and_title.sql
RunMigration ==
    /\ Len(db.history) < MaxRuns
    /\ db' = [db EXCEPT !.schema = Migration001(db.schema).schema,
                        !.history = Append(@, Migration001(db.schema))]
    /\ UNCHANGED <<now, accessToken, pathname, redirect, guardVars, uploadVars, tagsIO, detail,
                   signup, server, profile>>

(* ----------------------- Profile page: its state ---------------------- *)
\* Profile after its useState(...) initialisers; body: the JSON body of the
\* PATCH it last sent; saveCall: the authenticatedFetch invocation of that save
\* the strings of the edit form and of a User; "bio?: string" may be Undefined
EmptyText == JsonString("")
\* what the visitor types into a field of the edit form
FormTexts == {JsonString(str) : str \in {"", "a"}}
\* the User objects the backend answers with
ProfileUsers == {[full_name |-> n, username |-> u, bio |-> b] :
                    n \in {JsonString("a")}, u \in {JsonString("a")},
                    b \in {Undefined, EmptyText, JsonString("a")}}
ProfileFields == {"full_name", "username", "bio"}

InitialProfile == [mounted |-> TRUE, user |-> Null, isLoading |-> TRUE, error |-> "",
                   showEditModal |-> FALSE, isSaving |-> FALSE, saveSuccess |-> FALSE,
                   fullName |-> EmptyText, username |-> EmptyText, bio |-> EmptyText,
                   loadCall |-> 0, saveCall |-> 0, body |-> NoBody, timers |-> 0]
UnmountedProfile == [InitialProfile EXCEPT !.mounted = FALSE, !.isLoading = FALSE]

(* ------------------------------- Init -------------------------------- *)
Init ==
    /\ now = 0
    /\ accessToken = NoToken
    /\ onAuthError = NoHandler
    /\ registered = 0
    /\ pathname = "/"
    /\ redirect = NoRedirect
    /\ calls = [c \in CallIds |-> IdleCall]
    /\ navbar = [mounted |-> FALSE, isAuthenticated |-> FALSE, interval |-> FALSE]
    /\ upload = UnmountedUpload
    /\ attempts = <<>>
    /\ tagsIO = InitialTags
    /\ detail = UnmountedDetail
    /\ signup = UnmountedSignup
    /\ server = EmptyServer
    /\ db = InitialDatabase
    /\ profile = UnmountedProfile

(* ------------------------- environment: clock ------------------------ *)
AdvanceClock ==
    /\ \E t \in TimePoints : t > now /\ now' = t
    /\ UNCHANGED <<accessToken, onAuthError, registered, pathname, redirect, calls, navbar, uploadVars, pageVars>>

(* --------------------------- App component --------------------------- *)
\* setAuthErrorHandler(handler)
setAuthErrorHandler_KeepsFirst(handler) ==
    onAuthError' = (IF onAuthError = NoHandler THEN handler ELSE onAuthError)

setAuthErrorHandler(handler) == onAuthError' = handler

\* App.useEffect: registers a fresh closure
AppEffect ==
    /\ registered < MaxHandlers
    /\ registered' = registered + 1
    /\ setAuthErrorHandler(registered + 1)
    /\ UNCHANGED <<now, accessToken, pathname, redirect, calls, navbar, uploadVars, pageVars>>

\* the closure App registers: navigate(`/login?redirect=${encodeURIComponent(currentPath)}`)
AuthErrorHandlerLocation == <<"/login", EncodeURIComponent(pathname)>>

\* "if (onAuthError) onAuthError()": the location afterwards
InvokeOnAuthError ==
    IF onAuthError # NoHandler THEN AuthErrorHandlerLocation ELSE <<pathname, redirect>>

\* the handlers that invocation runs
InvokedHandlers ==
    IF onAuthError # NoHandler THEN <<onAuthError>> ELSE <<>>

(* ------------------------- authenticatedFetch ------------------------ *)
\* lines 374-394: up to the await of fetch
AuthFetchRequest_DropsCallerHeaders(token, op) ==
    LET options == ApiOptions(op) IN
    [url |-> op, method |-> options.method, body |-> options.body,
     headers |-> IF Truthy(token)
                 THEN HeadersSet(NoHeaders, "Authorization", Bearer(token))
                 ELSE NoHeaders]

AuthFetchRequest(token, op) ==
    LET options == ApiOptions(op)
        headers == NewHeaders(options.headers)
    IN  [url |-> op, method |-> options.method, body |-> options.body,
         headers |-> IF Truthy(token)
                     THEN HeadersSet(headers, "Authorization", Bearer(token))
                     ELSE headers]

\* line 377: if (token && isTokenExpired(token))
LocallyExpired_IgnoresExpiry(token) == FALSE

LocallyExpired_WithoutTokenToo(token) == isTokenExpired(token)

LocallyExpired(token) == Truthy(token) /\ isTokenExpired(token)

\* line 397: if (response.status === 401)
IsUnauthorized_AnyFailure(status) == ~(status >= 200 /\ status <= 299)

IsUnauthorized(status) == status = Unauthorized

\* lines 378 and 398: localStorage after tokenManager.removeToken(), which is
\* called before "if (onAuthError)" is tested
removeToken_OnlyWithHandler == IF onAuthError # NoHandler THEN NoToken ELSE accessToken

removeToken == NoToken

\* lines 374-394: what the invocation does to the token, the location and
\* itself; cs: the invocations as the caller's step has left them so far
AuthFetchFrom(cs, c, op) ==
    LET token == accessToken IN
    /\ cs[c].pc = "idle"
    /\ \A d \in DOMAIN cs : d < c => cs[d].pc # "idle"
    /\ IF LocallyExpired(token)
       THEN /\ accessToken' = removeToken
            /\ pathname' = InvokeOnAuthError[1]
            /\ redirect' = InvokeOnAuthError[2]
            /\ calls' = [cs EXCEPT ![c] = [@ EXCEPT !.pc = "rejected",
                             !.invoked = InvokedHandlers, !.error = SessionExpired]]
       ELSE /\ calls' = [cs EXCEPT ![c] = [@ EXCEPT !.pc = "sent",
                             !.request = AuthFetchRequest(token, op), !.nsent = @ + 1,
                             !.sentExpired = Truthy(token) /\ isTokenExpired(token)]]
            /\ UNCHANGED <<accessToken, pathname, redirect>>

AuthFetchBegin(c, op) == AuthFetchFrom(calls, c, op)

AuthFetchStart(c, op) ==
    /\ AuthFetchBegin(c, op)
    /\ UNCHANGED <<now, onAuthError, registered, navbar, uploadVars, pageVars>>

AuthFetchCall == \E c \in CallIds, op \in CalledOps : AuthFetchStart(c, op)

\* lines 396-405: the continuation once the response has arrived
AuthFetchSettle_OnlyWhileAuthenticated(c, status) ==
    /\ calls[c].pc = "sent"
    /\ IF IsUnauthorized(status) /\ isAuthenticated
       THEN /\ accessToken' = removeToken
            /\ pathname' = InvokeOnAuthError[1]
            /\ redirect' = InvokeOnAuthError[2]
            /\ calls' = [calls EXCEPT ![c] = [@ EXCEPT !.pc = "rejected", !.status = status,
                             !.request = NoRequest, !.invoked = InvokedHandlers,
                             !.error = SessionExpired]]
       ELSE /\ calls' = [calls EXCEPT ![c] = [@ EXCEPT !.pc = "returned", !.status = status,
                             !.request = NoRequest]]
            /\ UNCHANGED <<accessToken, pathname, redirect>>
    /\ UNCHANGED <<now, onAuthError, registered, navbar, uploadVars, pageVars>>

AuthFetchSettle(c, status) ==
    /\ calls[c].pc = "sent"
    /\ IF IsUnauthorized(status)
       THEN /\ accessToken' = removeToken
            /\ pathname' = InvokeOnAuthError[1]
            /\ redirect' = InvokeOnAuthError[2]
            /\ calls' = [calls EXCEPT ![c] = [@ EXCEPT !.pc = "rejected", !.status = status,
                             !.request = NoRequest, !.invoked = InvokedHandlers,
                             !.error = SessionExpired]]
       ELSE /\ calls' = [calls EXCEPT ![c] = [@ EXCEPT !.pc = "returned", !.status = status,
                             !.request = NoRequest]]
            /\ UNCHANGED <<accessToken, pathname, redirect>>
    /\ UNCHANGED <<now, onAuthError, registered, navbar, uploadVars, pageVars>>

AuthFetchResponse == \E c \in DOMAIN calls, status \in Statuses : AuthFetchSettle(c, status)

\* fetch itself rejects (no response): the rejection passes through
AuthFetchNetworkFailure ==
    \E c \in DOMAIN calls :
        /\ calls[c].pc = "sent"
        /\ calls' = [calls EXCEPT ![c] = [@ EXCEPT !.pc = "rejected", !.request = NoRequest,
                             !.error = NetworkError]]
        /\ UNCHANGED <<now, accessToken, onAuthError, registered, pathname, redirect, navbar, uploadVars, pageVars>>

(* ------------------------------ Signup ------------------------------- *)
\* handleSignup once authAPI.login resolved: saveToken, then navigate(redirectTo)
SignupLoggedIn ==
    \E t \in Tokens :
        /\ pathname = "/signup"
        /\ accessToken' = t
        /\ pathname' = (IF SearchParamsGet(redirect) # NoRedirect
                        THEN SearchParamsGet(redirect) ELSE "/")
        /\ redirect' = NoRedirect
        /\ UNCHANGED <<now, onAuthError, registered, calls, navbar, uploadVars, pageVars>>

\* the user follows a link or types a URL
UserNavigate ==
    \E p \in Paths :
        /\ p # pathname
        /\ pathname' = p
        /\ redirect' = (IF p = "/signup" /\ pathname = "/login" THEN redirect ELSE NoRedirect)
        /\ UNCHANGED <<now, accessToken, onAuthError, registered, calls, navbar, uploadVars, pageVars>>

(* ------------------------------ Navbar ------------------------------- *)
\* useEffect on mount: checkAuth() and setInterval(checkAuth, 1000)
NavbarMount ==
    /\ ~navbar.mounted
    /\ navbar' = [mounted |-> TRUE, isAuthenticated |-> isAuthenticated, interval |-> TRUE]
    /\ UNCHANGED <<now, accessToken, onAuthError, registered, pathname, redirect, calls, uploadVars, pageVars>>

\* the interval fires: checkAuth()
NavbarTick ==
    /\ navbar.interval
    /\ navbar' = IF navbar.mounted
                 THEN [navbar EXCEPT !.isAuthenticated = isAuthenticated]
                 ELSE navbar
    /\ UNCHANGED <<now, accessToken, onAuthError, registered, pathname, redirect, calls, uploadVars, pageVars>>

\* line 20: "return () => clearInterval(interval)": whether the timer is
\* still set after the cleanup
clearInterval_Missing == TRUE

clearInterval == FALSE

\* the effect's cleanup: clearInterval; the component state is discarded
NavbarUnmount ==
    /\ navbar.mounted
    /\ navbar' = [mounted |-> FALSE, isAuthenticated |-> FALSE, interval |-> clearInterval]
    /\ UNCHANGED <<now, accessToken, onAuthError, registered, pathname, redirect, calls, uploadVars, pageVars>>

\* handleLogout (the button is rendered only while isAuthenticated)
NavbarLogout ==
    /\ navbar.mounted /\ navbar.isAuthenticated
    /\ accessToken' = NoToken
    /\ navbar' = [navbar EXCEPT !.isAuthenticated = FALSE]
    /\ pathname' = "/"
    /\ redirect' = NoRedirect
    /\ UNCHANGED <<now, onAuthError, registered, calls, uploadVars, pageVars>>

(* ---------------------------- Upload page ---------------------------- *)
\* what a fetch settles with: a status, or 0 when the promise rejects
NetworkFailure == 0
Outcomes == Statuses \cup {NetworkFailure}

\* the route /upload is opened: the component mounts and its effect runs
OpenUploadPage ==
    /\ ~upload.mounted
    /\ pathname' = "/upload"
    /\ redirect' = NoRedirect
    /\ upload' = [InitialUpload EXCEPT !.isAuthenticated = isAuthenticated]
    /\ UNCHANGED <<now, accessToken, guardVars, pageVars, attempts>>

\* the form is reachable only when the "Login Required" overlay is not rendered
FormUsable == upload.mounted /\ upload.isAuthenticated

handleFileSelect ==
    \E file \in Files :
        /\ FormUsable /\ ~upload.preview
        /\ upload' =
              IF ~StartsWithImage(file.type)
              THEN [upload EXCEPT !.error = "Please select an image file"]
              ELSE IF file.size > MaxFileSize
              THEN [upload EXCEPT !.error = "File size must not exceed 50MB. Please choose a smaller image."]
              ELSE [upload EXCEPT !.selectedFile = file, !.error = ""]
        /\ UNCHANGED <<now, accessToken, pathname, redirect, guardVars, pageVars, attempts>>

\* reader.onloadend of the FileReader handleFileSelect started
PreviewLoaded ==
    /\ upload.mounted /\ upload.selectedFile # NoFile /\ ~upload.preview
    /\ upload' = [upload EXCEPT !.preview = TRUE]
    /\ UNCHANGED <<now, accessToken, pathname, redirect, guardVars, pageVars, attempts>>

SetTitle ==
    \E v \in TitleValues :
        /\ FormUsable /\ v # upload.title
        /\ upload' = [upload EXCEPT !.title = v]
        /\ UNCHANGED <<now, accessToken, pathname, redirect, guardVars, pageVars, attempts>>

SetDescription ==
    \E v \in DescriptionValues :
        /\ FormUsable /\ v # upload.description
        /\ upload' = [upload EXCEPT !.description = v]
        /\ UNCHANGED <<now, accessToken, pathname, redirect, guardVars, pageVars, attempts>>

\* the X button over the preview (never disabled)
handleCancel ==
    /\ FormUsable /\ upload.preview
    /\ upload' = [upload EXCEPT !.selectedFile = NoFile, !.preview = FALSE, !.title = "",
                                !.description = "", !.error = ""]
    /\ tagsIO' = [tagsIO EXCEPT !.tags = <<>>]
    /\ UNCHANGED <<now, accessToken, pathname, redirect, guardVars, detail, signup, server, attempts, db, profile>>

\* handleUpload up to its first await (the Share button: rendered with the
\* preview, disabled while isUploading)
handleUpload ==
    LET token == accessToken IN
    /\ FormUsable /\ upload.preview /\ ~upload.isUploading
    /\ Len(attempts) < MaxAttempts
    /\ IF upload.selectedFile = NoFile
       THEN /\ upload' = [upload EXCEPT !.error = "Please select an image"]
            /\ UNCHANGED <<pathname, redirect, attempts>>
       ELSE IF Trim(upload.title) = ""
       THEN /\ upload' = [upload EXCEPT !.error = "Title is required"]
            /\ UNCHANGED <<pathname, redirect, attempts>>
       ELSE IF Trim(upload.description) = ""
       THEN /\ upload' = [upload EXCEPT !.error = "Description is required"]
            /\ UNCHANGED <<pathname, redirect, attempts>>
       ELSE IF token = NoToken
       THEN /\ pathname' = "/login"
            /\ redirect' = NoRedirect
            /\ upload' = UnmountedUpload
            /\ UNCHANGED attempts
       ELSE IF upload.selectedFile.size > MaxFileSize
       THEN /\ upload' = [upload EXCEPT !.error = "File size must not exceed 50MB. Please choose a smaller image."]
            /\ UNCHANGED <<pathname, redirect, attempts>>
       ELSE /\ upload' = [upload EXCEPT !.isUploading = TRUE, !.error = ""]
            /\ attempts' = Append(attempts, NewAttempt(token, upload.selectedFile))
            /\ UNCHANGED <<pathname, redirect>>
    /\ UNCHANGED <<now, accessToken, guardVars, pageVars>>

\* handleUpload has returned: the values its closure captured are released
Finished(attempt) == [attempt EXCEPT !.token = NoToken, !.file = NoFile]

\* catch (err) { setError(...) } finally { setIsUploading(false) }
UploadFailed(message) ==
    IF upload.mounted
    THEN [upload EXCEPT !.error = message, !.isUploading = FALSE]
    ELSE upload

\* line 162: if (!response.ok) throw
SlotOk_Unchecked(outcome) == outcome # NetworkFailure

SlotOk(outcome) == outcome # NetworkFailure /\ Ok(outcome)

\* line 180: if (!uploadResponse.ok) throw
PutOk_Unchecked(outcome) == outcome # NetworkFailure

PutOk(outcome) == outcome # NetworkFailure /\ Ok(outcome)

\* line 205: if (!confirmResponse.ok) throw
ConfirmOk(outcome) == outcome # NetworkFailure /\ Ok(outcome)

\* step 1 settles: the presigned-url response, then the PUT is started
SlotSettled(a, outcome) ==
    /\ attempts[a].pc = "slot"
    /\ IF SlotOk(outcome)
       THEN /\ attempts' = [attempts EXCEPT ![a] = [@ EXCEPT !.pc = "put",
                                !.slotStatus = outcome, !.sent = Append(@, "put")]]
            /\ UNCHANGED upload
       ELSE /\ attempts' = [attempts EXCEPT ![a] = Finished([attempts[a] EXCEPT !.pc = "failed",
                                !.slotStatus = outcome])]
            /\ upload' = UploadFailed(IF outcome = NetworkFailure THEN NetworkError
                                      ELSE DetailOr(outcome, "Failed to get upload URL"))
    /\ UNCHANGED <<now, accessToken, pathname, redirect, guardVars, pageVars>>

SlotResponse == \E a \in DOMAIN attempts, outcome \in Outcomes : SlotSettled(a, outcome)

\* step 2 settles: the storage PUT, then the confirmation is started
PutSettled(a, outcome) ==
    /\ attempts[a].pc = "put"
    /\ IF PutOk(outcome)
       THEN /\ attempts' = [attempts EXCEPT ![a] = [@ EXCEPT !.pc = "confirm",
                                !.putStatus = outcome, !.sent = Append(@, "confirm"),
                                !.sentExpired = @ \/ isTokenExpired(attempts[a].token)]]
            /\ UNCHANGED upload
       ELSE /\ attempts' = [attempts EXCEPT ![a] = Finished([attempts[a] EXCEPT !.pc = "failed",
                                !.putStatus = outcome])]
            /\ upload' = UploadFailed(IF outcome = NetworkFailure THEN NetworkError
                                      ELSE S3Failed)
    /\ UNCHANGED <<now, accessToken, pathname, redirect, guardVars, pageVars>>

PutResponse == \E a \in DOMAIN attempts, outcome \in Outcomes : PutSettled(a, outcome)

\* step 3 settles: the confirm-upload response, then navigate("/")
ConfirmSettled(a, outcome) ==
    /\ attempts[a].pc = "confirm"
    /\ IF ConfirmOk(outcome)
       THEN /\ attempts' = [attempts EXCEPT ![a] = Finished([attempts[a] EXCEPT !.pc = "done",
                                !.confirmStatus = outcome])]
            /\ pathname' = "/"
            /\ redirect' = NoRedirect
            /\ upload' = UnmountedUpload
       ELSE /\ attempts' = [attempts EXCEPT ![a] = Finished([attempts[a] EXCEPT !.pc = "failed",
                                !.confirmStatus = outcome])]
            /\ upload' = UploadFailed(IF outcome = NetworkFailure THEN NetworkError
                                      ELSE DetailOr(outcome, "Failed to confirm upload"))
            /\ UNCHANGED <<pathname, redirect>>
    /\ UNCHANGED <<now, accessToken, guardVars, pageVars>>

ConfirmResponse == \E a \in DOMAIN attempts, outcome \in Outcomes : ConfirmSettled(a, outcome)

\* the token is removed from localStorage by another tab of the application
\* (Navbar.handleLogout there); this tab's components are not told
StorageRemovedElsewhere ==
    /\ accessToken # NoToken
    /\ accessToken' = NoToken
    /\ UNCHANGED <<now, pathname, redirect, guardVars, uploadVars, pageVars>>

(* ------------------------------ backend ------------------------------- *)
PostIds == 1..Len(server.posts)
Exists(p) == p \in PostIds /\ ~server.posts[p].deleted
Callers == {Anonymous} \cup (1..Len(server.users))

\* the answer to a request: its operation, caller, target, status and value
Reply(op, caller, target, status, value) ==
    [op |-> op, caller |-> caller, target |-> target, status |-> status, value |-> value]

\* "simply incrementing": the counter after an increment call
Incremented_OncePerClient(count) == IF count = 0 THEN 1 ELSE count

Incremented(count) == count + 1

\* POST /api/posts/{id}/view: no authentication, no de-duplication
ServerTrackView(p) ==
    /\ IF Exists(p)
       THEN /\ server.posts[p].views < MaxCount
            /\ server' = [server EXCEPT
                  !.posts[p].views = Incremented(@),
                  !.last = Reply("view", Anonymous, p, 200, Incremented(server.posts[p].views))]
       ELSE server' = [server EXCEPT !.last = Reply("view", Anonymous, p, 404, 0)]
    /\ UNCHANGED <<now, accessToken, pathname, redirect, guardVars, uploadVars, tagsIO, detail, signup, db, profile>>

\* POST /api/posts/{id}/download
ServerTrackDownload(p) ==
    /\ IF Exists(p)
       THEN /\ server.posts[p].downloads < MaxCount
            /\ server' = [server EXCEPT
                  !.posts[p].downloads = Incremented(@),
                  !.last = Reply("download", Anonymous, p, 200,
                                 Incremented(server.posts[p].downloads))]
       ELSE server' = [server EXCEPT !.last = Reply("download", Anonymous, p, 404, 0)]
    /\ UNCHANGED <<now, accessToken, pathname, redirect, guardVars, uploadVars, tagsIO, detail, signup, db, profile>>

\* the store after a read-only operation
AfterRead_CountsView(posts, p) ==
    IF p \in 1..Len(posts) /\ ~posts[p].deleted /\ posts[p].views < MaxCount
    THEN [posts EXCEPT ![p].views = @ + 1] ELSE posts

AfterRead(posts, p) == posts

\* GET /api/posts/{id}: the post with its counters, or NotFound
ServerGetPostById(p) ==
    /\ server' = [server EXCEPT
          !.posts = AfterRead(@, p),
          !.last = IF Exists(p)
                   THEN Reply("getPostById", Anonymous, p, 200, server.posts[p].views)
                   ELSE Reply("getPostById", Anonymous, p, 404, 0)]
    /\ UNCHANGED <<now, accessToken, pathname, redirect, guardVars, uploadVars, tagsIO, detail, signup, db, profile>>

\* GET /api/posts: the feed, most recent first
ServerGetAllPosts ==
    /\ server' = [server EXCEPT
          !.last = Reply("getAllPosts", Anonymous, 0, 200,
                         Cardinality({p \in PostIds : Exists(p)}))]
    /\ UNCHANGED <<now, accessToken, pathname, redirect, guardVars, uploadVars, tagsIO, detail, signup, db, profile>>

\* GET /api/posts/user/{user_id}
ServerGetUserPosts(u) ==
    /\ server' = [server EXCEPT
          !.last = Reply("getUserPosts", Anonymous, u, 200,
                         Cardinality({p \in PostIds : Exists(p) /\ server.posts[p].user_id = u}))]
    /\ UNCHANGED <<now, accessToken, pathname, redirect, guardVars, uploadVars, tagsIO, detail, signup, db, profile>>

\* POST /api/posts/presigned-url: an authenticated caller gets a fresh
\* single-use authorization; the Credential Store is not touched
ServerPresignedUrl(caller) ==
    /\ IF caller = Anonymous
       THEN server' = [server EXCEPT !.last = Reply("presigned-url", caller, 0, 401, 0)]
       ELSE /\ server.issued < MaxSlots
            /\ server' = [server EXCEPT
                  !.issued = @ + 1,
                  !.last = Reply("presigned-url", caller, 0, 200, server.issued + 1)]
    /\ UNCHANGED <<now, accessToken, pathname, redirect, guardVars, uploadVars, tagsIO, detail, signup, db, profile>>

\* the client's PUT against an issued authorization: the object is stored, or
\* the write fails; the backend does not see it
StoragePut(key, ok) ==
    /\ key \in 1..server.issued /\ key \notin server.objects
    /\ server' = [server EXCEPT
          !.objects = IF ok THEN @ \cup {key} ELSE @,
          !.last = Reply("put", Anonymous, key, IF ok THEN 200 ELSE 500, 0)]
    /\ UNCHANGED <<now, accessToken, pathname, redirect, guardVars, uploadVars, tagsIO, detail, signup, db, profile>>

\* whether confirm-upload accepts the public URL of key
ConfirmAccepts_VerifiesStorage(key) == key \in server.objects

ConfirmAccepts(key) == TRUE

\* POST /api/posts/confirm-upload: creates the Post record for the caller
ServerConfirmUpload(caller, key) ==
    /\ IF caller = Anonymous
       THEN server' = [server EXCEPT !.last = Reply("confirm-upload", caller, key, 401, 0)]
       ELSE IF ~ConfirmAccepts(key)
       THEN server' = [server EXCEPT !.last = Reply("confirm-upload", caller, key, 400, 0)]
       ELSE /\ Len(server.posts) < MaxPosts
            /\ server' = [server EXCEPT
                  !.posts = Append(@, NewPost(caller, key)),
                  !.last = Reply("confirm-upload", caller, key, 200, Len(server.posts) + 1)]
    /\ UNCHANGED <<now, accessToken, pathname, redirect, guardVars, uploadVars, tagsIO, detail, signup, db, profile>>

\* DELETE /api/posts/{id}: by its owner only
ServerDeletePost(caller, p) ==
    /\ server' =
          IF caller = Anonymous
          THEN [server EXCEPT !.last = Reply("deletePost", caller, p, 401, 0)]
          ELSE IF ~Exists(p)
          THEN [server EXCEPT !.last = Reply("deletePost", caller, p, 404, 0)]
          ELSE IF server.posts[p].user_id # caller
          THEN [server EXCEPT !.last = Reply("deletePost", caller, p, 403, 0)]
          ELSE [server EXCEPT !.posts[p] = DeletedPost,
                              !.last = Reply("deletePost", caller, p, 200, 0)]
    /\ UNCHANGED <<now, accessToken, pathname, redirect, guardVars, uploadVars, tagsIO, detail, signup, db, profile>>

(* --------------------------- backend: users --------------------------- *)
\* as many distinct usernames, emails and Google identities as there may be users
Usernames == {<<"user", i>> : i \in 1..MaxUsers}
Emails == {<<"user", i, "@example.com">> : i \in 1..MaxUsers}
GoogleIds == 1..MaxUsers
Bios == {"", "hello"}

UserIds == 1..Len(server.users)
UsernameTaken(username) == \E u \in UserIds : server.users[u].username = username
EmailTaken(email) == \E u \in UserIds : server.users[u].email = email
ByEmail(email) == CHOOSE u \in UserIds : server.users[u].email = email

\* a User record created by a first external-identity login: no password hash
GoogleUser_NoIdentity(username, email, google_id) ==
    [username |-> username, email |-> email, password |-> FALSE, google_id |-> 0, bio |-> ""]

GoogleUser(username, email, google_id) ==
    [username |-> username, email |-> email, password |-> FALSE, google_id |-> google_id,
     bio |-> ""]

\* POST /auth/signup: username and email are unique; the password is hashed
ServerSignup(username, email) ==
    /\ IF UsernameTaken(username) \/ EmailTaken(email)
       THEN server' = [server EXCEPT !.last = Reply("signup", Anonymous, 0, 400, 0)]
       ELSE /\ Len(server.users) < MaxUsers
            /\ server' = [server EXCEPT
                  !.users = Append(@, PasswordUser(username, email)),
                  !.last = Reply("signup", Anonymous, 0, 200, 0)]
    /\ UNCHANGED <<now, accessToken, pathname, redirect, guardVars, uploadVars, tagsIO, detail, signup, db, profile>>

\* POST /auth/google with an assertion (id, email): a known identity logs in;
\* an unseen identity whose email belongs to an account is linked to it or
\* refused (the policy is left open); otherwise a User is created
ServerGoogleAuth(google_id, email) ==
    /\ IF \E u \in UserIds : server.users[u].google_id = google_id
       THEN server' = [server EXCEPT
               !.last = Reply("google", Anonymous, 0, 200, 0)]
       ELSE IF EmailTaken(email)
       THEN \/ /\ server.users[ByEmail(email)].google_id = 0
               /\ server' = [server EXCEPT
                     !.users[ByEmail(email)].google_id = google_id,
                     !.last = Reply("google", Anonymous, 0, 200, 0)]
            \/ server' = [server EXCEPT !.last = Reply("google", Anonymous, 0, 409, 0)]
       ELSE /\ Len(server.users) < MaxUsers
            /\ \E username \in Usernames :
                  /\ ~UsernameTaken(username)
                  /\ server' = [server EXCEPT
                        !.users = Append(@, GoogleUser(username, email, google_id)),
                        !.last = Reply("google", Anonymous, 0, 200, 0)]
    /\ UNCHANGED <<now, accessToken, pathname, redirect, guardVars, uploadVars, tagsIO, detail, signup, db, profile>>

\* PATCH /auth/me: the profile fields (username, bio) of the caller
ServerUpdateProfile(caller, username, bio) ==
    /\ server' =
          IF caller = Anonymous
          THEN [server EXCEPT !.last = Reply("updateProfile", Anonymous, 0, 401, 0)]
          ELSE IF username # server.users[caller].username /\ UsernameTaken(username)
          THEN [server EXCEPT !.last = Reply("updateProfile", Anonymous, 0, 400, 0)]
          ELSE [server EXCEPT !.users[caller].username = username,
                              !.users[caller].bio = bio,
                              !.last = Reply("updateProfile", Anonymous, 0, 200, 0)]
    /\ UNCHANGED <<now, accessToken, pathname, redirect, guardVars, uploadVars, tagsIO, detail, signup, db, profile>>

(* -------------------------- PostDetail page --------------------------- *)
\* the component renders while its route is the current one
DetailShown == detail.mounted /\ pathname = PostPath

\* nothing the page started is still under way
DetailSettled ==
    /\ detail.loads = 0 /\ detail.viewCalls = {}
    /\ detail.fetching = 0 /\ detail.timers = 0 /\ detail.downloadCalls = {}

\* the invocations of authenticatedFetch the page may have in flight at once
DetailCallIds == 1..(StrictEffectRuns + MaxDownloads)

\* the route /post/:id is opened; the first effect starts loadPost:
\* setIsLoading(true), setViewTracked(false), postsAPI.getPostById (no token);
\* the second effect finds isLoading set. (The page is opened again only once
\* the requests and timers of its previous instance have settled.)
MountPostDetail(runs) ==
    \E initialPost \in {Null, LoadedPost} :
        /\ ~DetailShown /\ ~upload.mounted /\ ~signup.mounted
        /\ DetailSettled
        /\ pathname' = PostPath
        /\ redirect' = NoRedirect
        /\ detail' = [InitialDetail(initialPost) EXCEPT !.loads = runs]
        /\ UNCHANGED <<now, accessToken, guardVars, uploadVars, tagsIO, signup, server, db, profile>>

\* a development build under <StrictMode> runs the effects of the mount twice
OpenPostDetail == \E runs \in 1..StrictEffectRuns : MountPostDetail(runs)

\* a production build runs them once
OpenPostDetailOnce == MountPostDetail(1)

\* lines 39 and 54: whether the second effect calls postsAPI.trackView
ViewEffectTracks(page) == page.post # Null /\ ~page.isLoading /\ ~page.viewTracked

\* the render that follows a step of the page, and the second effect when one
\* of its dependencies [post, id, viewTracked, isLoading] changed: trackView
\* runs up to the await inside authenticatedFetch; when that rejects at once,
\* "catch { setViewTracked(true) }" follows. page: the component after the
\* step's setters; cs: the invocations after the step
Rendered(page, cs, depsChanged) ==
    IF DetailShown /\ depsChanged /\ ViewEffectTracks(page)
    THEN \E c \in DOMAIN cs :
            /\ AuthFetchFrom(cs, c, "trackView")
            /\ detail' = IF calls'[c].pc = "rejected"
                         THEN [page EXCEPT !.viewTracked = TRUE]
                         ELSE [page EXCEPT !.viewCalls = @ \cup {c}, !.viewsSent = @ + 1]
    ELSE /\ detail' = page
         /\ calls' = cs
         /\ UNCHANGED <<accessToken, pathname, redirect>>

\* getPostById settles: setPost(data) or setError(...); finally
\* setIsLoading(false). The setters reach the component only while it is rendered
LoadPostSettled(outcome) ==
    LET ok == outcome # NetworkFailure /\ Ok(outcome)
        left == [detail EXCEPT !.loads = @ - 1]
        page == IF ~DetailShown THEN left
                ELSE IF ok
                THEN [left EXCEPT !.post = LoadedPost, !.isLoading = FALSE, !.lookedUp = TRUE]
                ELSE [left EXCEPT !.isLoading = FALSE,
                                  !.error = IF outcome = NetworkFailure THEN NetworkError
                                            ELSE DetailOr(outcome, "Failed to fetch post")]
    IN  /\ detail.loads > 0
        /\ Rendered(page, calls, ok \/ detail.isLoading)
        /\ UNCHANGED <<now, onAuthError, registered, navbar, uploadVars, tagsIO, signup, server,
                       db, profile>>

LoadPostResponse == \E outcome \in Outcomes : LoadPostSettled(outcome)

\* trackView's await resumes: setPost(prev => ({...prev, views})) and
\* setViewTracked(true); on a rejection or a non-ok answer the catch sets
\* viewTracked as well
TrackViewSettled ==
    \E c \in detail.viewCalls :
        LET ok == calls[c].pc = "returned" /\ Ok(calls[c].status)
            left == [detail EXCEPT !.viewCalls = @ \ {c}]
            page == IF ~DetailShown THEN left
                    ELSE [left EXCEPT !.viewTracked = TRUE,
                                      !.post = IF ok /\ @ # Null THEN [@ EXCEPT !.views = 1]
                                               ELSE @]
        IN  /\ calls[c].pc \in {"returned", "rejected"}
            /\ Rendered(page, [calls EXCEPT ![c] = IdleCall], TRUE)
            /\ UNCHANGED <<now, onAuthError, registered, navbar, uploadVars, tagsIO, signup,
                           server, db, profile>>

\* the Download button (rendered with the post, not with the spinner or the
\* error): the image is fetched from its URL (no token)
handleDownload ==
    /\ DetailShown /\ detail.post # Null /\ ~detail.isLoading /\ detail.error = ""
    /\ detail.clicks < MaxDownloads
    /\ detail' = [detail EXCEPT !.clicks = @ + 1, !.fetching = @ + 1]
    /\ UNCHANGED <<now, accessToken, pathname, redirect, guardVars, uploadVars, tagsIO, signup, server, db, profile>>

\* line 79: if (!response.ok) throw
ImageOk_Unchecked(outcome) == outcome # NetworkFailure

ImageOk(outcome) == outcome # NetworkFailure /\ Ok(outcome)

\* the image fetch settles: the file is saved and setTimeout(trackDownload, 2000)
\* is set, or alert('Failed to download image...')
ImageFetched(outcome) ==
    LET answered == IF outcome >= 200 /\ outcome <= 299
                    THEN [detail EXCEPT !.fetching = @ - 1, !.imagesOk = @ + 1]
                    ELSE [detail EXCEPT !.fetching = @ - 1, !.imagesFailed = @ + 1]
    IN
    /\ detail.fetching > 0
    /\ detail' = IF ImageOk(outcome)
                 THEN [answered EXCEPT !.timers = @ + 1]
                 ELSE [answered EXCEPT !.alerts = @ + 1]
    /\ UNCHANGED <<now, accessToken, pathname, redirect, guardVars, uploadVars, tagsIO, signup, server, db, profile>>

ImageResponse == \E outcome \in Outcomes : ImageFetched(outcome)

\* the 2 s timer fires (it is never cleared): postsAPI.trackDownload runs up to
\* the await inside authenticatedFetch; a rejection is swallowed
TrackDownloadTimer ==
    /\ detail.timers > 0
    /\ \E c \in DOMAIN calls :
          /\ AuthFetchBegin(c, "trackDownload")
          /\ detail' = IF calls'[c].pc = "rejected"
                       THEN [detail EXCEPT !.timers = @ - 1]
                       ELSE [detail EXCEPT !.timers = @ - 1, !.downloadCalls = @ \cup {c},
                                           !.downloadsSent = @ + 1]
    /\ UNCHANGED <<now, onAuthError, registered, navbar, uploadVars, tagsIO, signup, server, db, profile>>

\* trackDownload's await resumes: setPost(prev => ({...prev, downloads})), a
\* new object the second effect depends on; or the empty catch
TrackDownloadSettled ==
    \E c \in detail.downloadCalls :
        LET ok == calls[c].pc = "returned" /\ Ok(calls[c].status)
            left == [detail EXCEPT !.downloadCalls = @ \ {c}]
            set == DetailShown /\ ok /\ detail.post # Null
            page == IF set THEN [left EXCEPT !.post = [@ EXCEPT !.downloads = 1]] ELSE left
        IN  /\ calls[c].pc \in {"returned", "rejected"}
            /\ Rendered(page, [calls EXCEPT ![c] = IdleCall], set)
            /\ UNCHANGED <<now, onAuthError, registered, navbar, uploadVars, tagsIO, signup,
                           server, db, profile>>

(* ---------------------------- Profile page ----------------------------- *)
ProfilePath == "/profile"
ProfileShown == profile.mounted /\ pathname = ProfilePath
ProfileCallIds == 1..2

\* value || ""
OrEmpty(value) == IF value = Undefined \/ value = EmptyText THEN EmptyText ELSE value

\* user?.field
UserField(user, field) == IF user = Null THEN Undefined ELSE user[field]

\* the form as the component holds it
ProfileForm(page) ==
    [full_name |-> page.fullName, username |-> page.username, bio |-> page.bio]

\* lines 68-81: "if (fullName !== user?.full_name) updateData.full_name = fullName" ...
FieldDiffers_Displayed(form, user, field) == form[field] # OrEmpty(UserField(user, field))

FieldDiffers(form, user, field) == form[field] # UserField(user, field)

UpdateData(form, user) ==
    LET sent == {f \in ProfileFields : FieldDiffers(form, user, f)}
    IN  [f \in sent |-> form[f]]

\* JSON.stringify(profileData): properties whose value is undefined are left out
JsonStringify(data) ==
    [f \in {g \in DOMAIN data : data[g] # Undefined} |-> data[f]]

\* lines 31-34 and 100-102: the form filled from a User
FormFilled(page, user) ==
    [page EXCEPT !.fullName = OrEmpty(UserField(user, "full_name")),
                 !.username = OrEmpty(UserField(user, "username")),
                 !.bio = OrEmpty(UserField(user, "bio"))]

\* the route /profile is opened: the component mounts and fetchUserProfile runs
OpenProfile ==
    /\ pathname = ProfilePath /\ ~profile.mounted
    /\ profile.loadCall = 0 /\ profile.saveCall = 0 /\ profile.timers = 0
    /\ IF ~isAuthenticated
       THEN /\ pathname' = "/login"
            /\ redirect' = NoRedirect
            /\ profile' = InitialProfile
            /\ UNCHANGED <<accessToken, calls>>
       ELSE \E c \in DOMAIN calls :
               /\ AuthFetchBegin(c, "getCurrentUser")
               /\ profile' = [InitialProfile EXCEPT !.loadCall = c]
    /\ UNCHANGED <<now, onAuthError, registered, navbar, uploadVars, tagsIO, detail, signup,
                   server, db>>

\* the visitor leaves the page or comes back to it: the component is unmounted
ProfileNavigate ==
    \E p \in {"/", ProfilePath} :
        /\ p # pathname
        /\ pathname' = p
        /\ redirect' = NoRedirect
        /\ profile' = [profile EXCEPT !.mounted = FALSE]
        /\ UNCHANGED <<now, accessToken, guardVars, uploadVars, tagsIO, detail, signup,
                       server, db>>

\* lines 29-51: authAPI.getCurrentUser settled
ProfileLoaded ==
    LET c == profile.loadCall IN
    /\ c # 0
    /\ calls[c].pc \in {"returned", "rejected"}
    /\ calls' = [calls EXCEPT ![c] = IdleCall]
    /\ \E userData \in ProfileUsers :
          LET left == [profile EXCEPT !.loadCall = 0]
              ok == calls[c].pc = "returned" /\ Ok(calls[c].status)
          IN  profile' = IF ~ProfileShown THEN left
                         ELSE IF ok
                         THEN [FormFilled(left, userData) EXCEPT !.user = userData,
                                                                 !.isLoading = FALSE]
                         ELSE [left EXCEPT !.error = "Failed to load profile",
                                           !.isLoading = FALSE]
    /\ UNCHANGED <<now, accessToken, onAuthError, registered, pathname, redirect, navbar,
                   uploadVars, tagsIO, detail, signup, server, db>>

\* the page below the spinner (line 110) and the error page (line 121)
ProfileRendered == ProfileShown /\ ~profile.isLoading /\ profile.error = ""

\* line 161: onClick={() => setShowEditModal(true)}
OpenEditModal ==
    /\ ProfileRendered /\ ~profile.showEditModal
    /\ profile' = [profile EXCEPT !.showEditModal = TRUE]
    /\ UNCHANGED <<now, accessToken, onAuthError, registered, pathname, redirect, calls,
                   navbar, uploadVars, tagsIO, detail, signup, server, db>>

\* lines 304, 318, 331: onChange of the three inputs
ProfileType ==
    \E text \in FormTexts :
        /\ ProfileRendered /\ profile.showEditModal
        /\ \/ profile.fullName # text /\ profile' = [profile EXCEPT !.fullName = text]
           \/ profile.username # text /\ profile' = [profile EXCEPT !.username = text]
           \/ profile.bio # text /\ profile' = [profile EXCEPT !.bio = text]
        /\ UNCHANGED <<now, accessToken, onAuthError, registered, pathname, redirect, calls,
                       navbar, uploadVars, tagsIO, detail, signup, server, db>>

\* lines 98-103
handleCancelEdit ==
    /\ ProfileRendered /\ profile.showEditModal
    /\ profile' = [FormFilled(profile, profile.user) EXCEPT !.showEditModal = FALSE]
    /\ UNCHANGED <<now, accessToken, onAuthError, registered, pathname, redirect, calls,
                   navbar, uploadVars, tagsIO, detail, signup, server, db>>

\* lines 57-84: the click on Save (disabled while isSaving) up to the await
handleSaveProfile ==
    /\ ProfileRendered /\ profile.showEditModal /\ ~profile.isSaving
    /\ profile.saveCall = 0
    /\ profile.timers < MaxTimers
    /\ IF ~isAuthenticated
       THEN /\ pathname' = "/login"
            /\ redirect' = NoRedirect
            /\ profile' = [profile EXCEPT !.isSaving = FALSE, !.error = ""]
            /\ UNCHANGED <<accessToken, calls>>
       ELSE \E c \in DOMAIN calls :
               /\ AuthFetchBegin(c, "updateProfile")
               /\ profile' = [profile EXCEPT
                      !.isSaving = TRUE, !.error = "", !.saveCall = c,
                      !.body = JsonStringify(UpdateData(ProfileForm(profile), profile.user))]
    /\ UNCHANGED <<now, onAuthError, registered, navbar, uploadVars, tagsIO, detail, signup,
                   server, db>>

\* lines 84-95: authAPI.updateProfile settled
ProfileSaved ==
    LET c == profile.saveCall IN
    /\ c # 0
    /\ calls[c].pc \in {"returned", "rejected"}
    /\ calls' = [calls EXCEPT ![c] = IdleCall]
    /\ \E updatedUser \in ProfileUsers :
          LET ok == calls[c].pc = "returned" /\ Ok(calls[c].status)
              left == [profile EXCEPT !.saveCall = 0, !.body = NoBody,
                                      !.timers = IF ok THEN @ + 1 ELSE @]
          IN  profile' = IF ~ProfileShown THEN left
                         ELSE IF ok
                         THEN [left EXCEPT !.user = updatedUser, !.saveSuccess = TRUE,
                                           !.isSaving = FALSE]
                         ELSE [left EXCEPT !.error = "Failed to update profile",
                                           !.isSaving = FALSE]
    /\ UNCHANGED <<now, accessToken, onAuthError, registered, pathname, redirect, navbar,
                   uploadVars, tagsIO, detail, signup, server, db>>

\* lines 87-90: the 1.5 s timer fires
ProfileSaveTimer ==
    /\ profile.timers > 0
    /\ profile' = IF ProfileShown
                  THEN [profile EXCEPT !.timers = @ - 1, !.saveSuccess = FALSE,
                                       !.showEditModal = FALSE]
                  ELSE [profile EXCEPT !.timers = @ - 1]
    /\ UNCHANGED <<now, accessToken, onAuthError, registered, pathname, redirect, calls,
                   navbar, uploadVars, tagsIO, detail, signup, server, db>>

InitProfile ==
    /\ now = 0
    /\ accessToken \in Tokens \cup {NoToken}
    /\ onAuthError = 1
    /\ registered = 1
    /\ pathname = ProfilePath
    /\ redirect = NoRedirect
    /\ calls = [c \in ProfileCallIds |-> IdleCall]
    /\ navbar = [mounted |-> FALSE, isAuthenticated |-> FALSE, interval |-> FALSE]
    /\ upload = UnmountedUpload
    /\ attempts = <<>>
    /\ tagsIO = InitialTags
    /\ detail = UnmountedDetail
    /\ signup = UnmountedSignup
    /\ server = EmptyServer
    /\ db = InitialDatabase
    /\ profile = UnmountedProfile

NextProfile ==
    \/ AdvanceClock
    \/ OpenProfile
    \/ ProfileNavigate
    \/ ProfileLoaded
    \/ OpenEditModal
    \/ ProfileType
    \/ handleCancelEdit
    \/ handleSaveProfile
    \/ ProfileSaved
    \/ ProfileSaveTimer
    \/ AuthFetchResponse
    \/ AuthFetchNetworkFailure

SpecProfile == InitProfile /\ [][NextProfile]_vars

(* ---------------------------- Signup page ----------------------------- *)
\* searchParams.get("redirect") || "/"
RedirectTo ==
    IF SearchParamsGet(redirect) # NoRedirect THEN SearchParamsGet(redirect) ELSE "/"

\* a state setter of Signup: no effect once the component is unmounted
SignupSet(page, isLoading, error) ==
    IF page.mounted THEN [page EXCEPT !.isLoading = isLoading, !.error = error] ELSE page

\* navigate(to), then "finally { setIsLoading(false) }": the page is unmounted
\* unless the destination is its own route
Navigated(page, to) ==
    IF to = "/signup"
    THEN IF page.mounted THEN SignupSet(page, FALSE, page.error)
         ELSE [page EXCEPT !.mounted = TRUE]
    ELSE [page EXCEPT !.mounted = FALSE, !.isLoading = FALSE, !.error = ""]

\* the route /signup is opened from the Login page's link, which keeps the
\* redirect parameter, or by its URL
OpenSignupPage ==
    /\ ~signup.mounted /\ ~upload.mounted
    /\ pathname # "/signup"
    /\ pathname' = "/signup"
    /\ redirect' = (IF pathname = "/login" THEN redirect ELSE NoRedirect)
    /\ signup' = [InitialSignup EXCEPT !.form = signup.form, !.google = signup.google]
    /\ UNCHANGED <<now, accessToken, guardVars, uploadVars, tagsIO, detail, server, db, profile>>

\* the Upload page's "Login Required" overlay: <Link to="/signup?redirect=/upload">
OverlayToSignup ==
    /\ upload.mounted /\ ~upload.isAuthenticated /\ ~signup.mounted
    /\ pathname' = "/signup"
    /\ redirect' = "/upload"
    /\ upload' = UnmountedUpload
    /\ signup' = [InitialSignup EXCEPT !.form = signup.form, !.google = signup.google]
    /\ UNCHANGED <<now, accessToken, guardVars, attempts, tagsIO, detail, server, db, profile>>

\* handleSignup up to its first await (the submit button is disabled while isLoading)
handleSignup ==
    \E password \in Passwords, confirmPassword \in Passwords :
        /\ signup.mounted /\ ~signup.isLoading
        /\ signup.form.pc \in {"idle", "failed", "done"}
        /\ IF password # confirmPassword
           THEN signup' = [signup EXCEPT !.error = "Passwords do not match", !.isLoading = FALSE,
                                         !.form = [IdleRun EXCEPT !.pc = "failed"]]
           ELSE signup' = [signup EXCEPT !.error = "", !.isLoading = TRUE,
                                         !.form = [IdleRun EXCEPT !.pc = "signup",
                                                                  !.sent = <<"signup">>]]
        /\ UNCHANGED <<now, accessToken, pathname, redirect, guardVars, uploadVars, tagsIO, detail, server, db, profile>>

\* authAPI.signup / authAPI.login / authAPI.googleAuth: if (!response.ok) throw
AuthOk_Unchecked(outcome) == outcome # NetworkFailure

AuthOk(outcome) == outcome # NetworkFailure /\ Ok(outcome)

\* authAPI.signup settles; on success authAPI.login is called
SignupSettled(outcome) ==
    /\ signup.form.pc = "signup"
    /\ IF AuthOk(outcome)
       THEN signup' = [signup EXCEPT !.form = [@ EXCEPT !.pc = "login", !.first = outcome,
                                                        !.sent = Append(@, "login")]]
       ELSE signup' = [SignupSet(signup, FALSE,
                                 IF outcome = NetworkFailure THEN NetworkError
                                 ELSE DetailOr(outcome, "Signup failed"))
                         EXCEPT !.form = [@ EXCEPT !.pc = "failed", !.first = outcome]]
    /\ UNCHANGED <<now, accessToken, pathname, redirect, guardVars, uploadVars, tagsIO, detail, server, db, profile>>

SignupResponse == \E outcome \in Outcomes : SignupSettled(outcome)

\* authAPI.login settles; on success saveToken(access_token), navigate(redirectTo)
LoginSettled(outcome, access_token) ==
    /\ signup.form.pc = "login"
    /\ IF AuthOk(outcome)
       THEN /\ accessToken' = access_token
            /\ pathname' = RedirectTo
            /\ redirect' = NoRedirect
            /\ signup' = [Navigated(signup, RedirectTo)
                            EXCEPT !.form = [@ EXCEPT !.pc = "done", !.second = outcome,
                                                      !.token = access_token]]
       ELSE /\ signup' = [SignupSet(signup, FALSE,
                                    IF outcome = NetworkFailure THEN NetworkError
                                    ELSE DetailOr(outcome, "Login failed"))
                            EXCEPT !.form = [@ EXCEPT !.pc = "failed", !.second = outcome]]
            /\ UNCHANGED <<accessToken, pathname, redirect>>
    /\ UNCHANGED <<now, guardVars, uploadVars, tagsIO, detail, server, db, profile>>

LoginResponse ==
    \E outcome \in Outcomes, access_token \in Tokens : LoginSettled(outcome, access_token)

\* the "Sign up with Google" button (disabled while isLoading): the consent popup opens
handleGoogleSignup ==
    /\ signup.mounted /\ ~signup.isLoading
    /\ signup.google.pc \in {"idle", "failed", "done"}
    /\ signup' = [signup EXCEPT !.google = [IdleRun EXCEPT !.pc = "popup"]]
    /\ UNCHANGED <<now, accessToken, pathname, redirect, guardVars, uploadVars, tagsIO, detail, server, db, profile>>

\* useGoogleLogin.onSuccess up to its first await: the userinfo request leaves
\* with the access token Google issued
GoogleOnSuccess ==
    /\ signup.google.pc = "popup"
    /\ signup' = [SignupSet(signup, TRUE, "")
                    EXCEPT !.google = [@ EXCEPT !.pc = "userinfo", !.sent = <<"userinfo">>]]
    /\ UNCHANGED <<now, accessToken, pathname, redirect, guardVars, uploadVars, tagsIO, detail, server, db, profile>>

\* useGoogleLogin.onError
GoogleOnError ==
    /\ signup.google.pc = "popup"
    /\ signup' = [SignupSet(signup, FALSE, "Google sign-up failed. Please try again.")
                    EXCEPT !.google = [@ EXCEPT !.pc = "failed"]]
    /\ UNCHANGED <<now, accessToken, pathname, redirect, guardVars, uploadVars, tagsIO, detail, server, db, profile>>

\* line 267: if (!userinfoResponse.ok) throw
UserinfoOk_Unchecked(outcome) == outcome # NetworkFailure

UserinfoOk(outcome) == outcome # NetworkFailure /\ Ok(outcome)

\* the userinfo request settles; on success authAPI.googleAuth is called
UserinfoSettled(outcome) ==
    /\ signup.google.pc = "userinfo"
    /\ IF UserinfoOk(outcome)
       THEN signup' = [signup EXCEPT !.google = [@ EXCEPT !.pc = "googleAuth", !.first = outcome,
                                                          !.sent = Append(@, "googleAuth")]]
       ELSE signup' = [SignupSet(signup, FALSE,
                                 IF outcome = NetworkFailure THEN NetworkError
                                 ELSE "Failed to get user info from Google")
                         EXCEPT !.google = [@ EXCEPT !.pc = "failed", !.first = outcome]]
    /\ UNCHANGED <<now, accessToken, pathname, redirect, guardVars, uploadVars, tagsIO, detail, server, db, profile>>

UserinfoResponse == \E outcome \in Outcomes : UserinfoSettled(outcome)

\* authAPI.googleAuth settles; on success saveToken(access_token), navigate(redirectTo)
GoogleAuthSettled(outcome, access_token) ==
    /\ signup.google.pc = "googleAuth"
    /\ IF AuthOk(outcome)
       THEN /\ accessToken' = access_token
            /\ pathname' = RedirectTo
            /\ redirect' = NoRedirect
            /\ signup' = [Navigated(signup, RedirectTo)
                            EXCEPT !.google = [@ EXCEPT !.pc = "done", !.second = outcome,
                                                        !.token = access_token]]
       ELSE /\ signup' = [SignupSet(signup, FALSE,
                                    IF outcome = NetworkFailure THEN NetworkError
                                    ELSE DetailOr(outcome, "Google authentication failed"))
                            EXCEPT !.google = [@ EXCEPT !.pc = "failed", !.second = outcome]]
            /\ UNCHANGED <<accessToken, pathname, redirect>>
    /\ UNCHANGED <<now, guardVars, uploadVars, tagsIO, detail, server, db, profile>>

GoogleAuthResponse ==
    \E outcome \in Outcomes, access_token \in Tokens : GoogleAuthSettled(outcome, access_token)

(* -------------------------------- tags -------------------------------- *)
\* onChange of the tags input: setTags(e.target.value)
SetTags ==
    \E v \in TagStrings :
        /\ FormUsable /\ v # tagsIO.tags
        /\ tagsIO' = [tagsIO EXCEPT !.tags = v]
        /\ UNCHANGED <<now, accessToken, pathname, redirect, guardVars, uploadVars, detail, signup, server, db, profile>>

\* step 3 of Upload.handleUpload builds the body of its confirmation
\* (the routes /upload and /post/:id are never mounted together)
UploadConfirmBody ==
    /\ FormUsable
    /\ tagsIO' = [tagsIO EXCEPT !.body = [url |-> "confirm-upload", by |-> "Upload",
                                          given |-> tagsIO.tags,
                                          tags |-> UploadConfirmTags(tagsIO.tags)],
                                !.post = Null, !.tagsArray = <<>>]
    /\ UNCHANGED <<now, accessToken, pathname, redirect, guardVars, uploadVars, detail, signup, server, db, profile>>

\* postsAPI.confirmUpload builds the body of its request (tags is optional)
ApiConfirmBody ==
    \E tags \in {Undefined, JsonString(tagsIO.tags)} :
        /\ tagsIO' = [tagsIO EXCEPT !.body = [url |-> "confirm-upload", by |-> "postsAPI",
                                              given |-> tagsIO.tags,
                                              tags |-> ApiConfirmTags(tags)],
                                    !.post = Null, !.tagsArray = <<>>]
        /\ UNCHANGED <<now, accessToken, pathname, redirect, guardVars, uploadVars, detail, signup, server, db, profile>>

\* PostDetail: setPost(data), then the render recomputes tagsArray
LoadPostTags ==
    \E t \in PostTags :
        LET post == [tags |-> t] IN
        /\ tagsIO' = [tagsIO EXCEPT !.post = post, !.tagsArray = tagsArray(post),
                                    !.body = NoBody]
        /\ UNCHANGED <<now, accessToken, pathname, redirect, guardVars, uploadVars, detail, signup, server, db, profile>>

\* The Upload page of a running application: App has registered its handler,
\* a token may be stored, the route /upload is open
InitUpload ==
    /\ now = 0
    /\ accessToken \in Tokens \cup {NoToken}
    /\ onAuthError = 1
    /\ registered = 1
    /\ pathname = "/upload"
    /\ redirect = NoRedirect
    /\ calls = [c \in CallIds |-> IdleCall]
    /\ navbar = [mounted |-> FALSE, isAuthenticated |-> FALSE, interval |-> FALSE]
    /\ upload = [InitialUpload EXCEPT !.isAuthenticated = isAuthenticated]
    /\ attempts = <<>>
    /\ tagsIO = InitialTags
    /\ detail = UnmountedDetail
    /\ signup = UnmountedSignup
    /\ server = EmptyServer
    /\ db = InitialDatabase
    /\ profile = UnmountedProfile

NextUpload ==
    \/ AdvanceClock
    \/ OpenUploadPage
    \/ handleFileSelect
    \/ PreviewLoaded
    \/ SetTitle
    \/ SetDescription
    \/ handleCancel
    \/ handleUpload
    \/ SlotResponse
    \/ PutResponse
    \/ ConfirmResponse
    \/ StorageRemovedElsewhere

SpecUpload == InitUpload /\ [][NextUpload]_vars

NextTags ==
    \/ SetTags
    \/ UploadConfirmBody
    \/ ApiConfirmBody
    \/ LoadPostTags

SpecTags == InitUpload /\ [][NextTags]_vars

\* Re-authentication from the Upload page: the page of a running application,
\* left for /login or /signup, and the Signup page's handlers
NextRedirect ==
    \/ handleFileSelect
    \/ PreviewLoaded
    \/ SetTitle
    \/ SetDescription
    \/ handleUpload
    \/ SlotResponse
    \/ PutResponse
    \/ ConfirmResponse
    \/ StorageRemovedElsewhere
    \/ OverlayToSignup
    \/ OpenSignupPage
    \/ handleSignup
    \/ SignupResponse
    \/ LoginResponse
    \/ handleGoogleSignup
    \/ GoogleOnSuccess
    \/ GoogleOnError
    \/ UserinfoResponse
    \/ GoogleAuthResponse

SpecRedirect == InitUpload /\ [][NextRedirect]_vars

\* A visitor opens a post of the feed: App has registered its handler, a token
\* of an earlier session may be stored
InitDetail ==
    /\ now = 0
    /\ accessToken \in Tokens \cup {NoToken}
    /\ onAuthError = 1
    /\ registered = 1
    /\ pathname = "/"
    /\ redirect = NoRedirect
    /\ calls = [c \in DetailCallIds |-> IdleCall]
    /\ navbar = [mounted |-> FALSE, isAuthenticated |-> FALSE, interval |-> FALSE]
    /\ upload = UnmountedUpload
    /\ attempts = <<>>
    /\ tagsIO = InitialTags
    /\ detail = UnmountedDetail
    /\ signup = UnmountedSignup
    /\ server = EmptyServer
    /\ db = InitialDatabase
    /\ profile = UnmountedProfile

NextDetail ==
    \/ AdvanceClock
    \/ OpenPostDetail
    \/ LoadPostResponse
    \/ TrackViewSettled
    \/ handleDownload
    \/ ImageResponse
    \/ TrackDownloadTimer
    \/ TrackDownloadSettled
    \/ AuthFetchResponse
    \/ AuthFetchNetworkFailure

SpecDetail == InitDetail /\ [][NextDetail]_vars

\* The same visit in a production build
NextDownload ==
    \/ AdvanceClock
    \/ OpenPostDetailOnce
    \/ LoadPostResponse
    \/ TrackViewSettled
    \/ handleDownload
    \/ ImageResponse
    \/ TrackDownloadTimer
    \/ TrackDownloadSettled
    \/ AuthFetchResponse
    \/ AuthFetchNetworkFailure

SpecDownload == InitDetail /\ [][NextDownload]_vars

\* The backend serving posts: one account exists, no post yet
InitPosts ==
    /\ now = 0
    /\ accessToken = NoToken
    /\ onAuthError = NoHandler
    /\ registered = 0
    /\ pathname = "/"
    /\ redirect = NoRedirect
    /\ calls = [c \in CallIds |-> IdleCall]
    /\ navbar = [mounted |-> FALSE, isAuthenticated |-> FALSE, interval |-> FALSE]
    /\ upload = UnmountedUpload
    /\ attempts = <<>>
    /\ tagsIO = InitialTags
    /\ detail = UnmountedDetail
    /\ signup = UnmountedSignup
    /\ server = [EmptyServer EXCEPT !.users = <<PasswordUser(<<"user", 1>>, <<"user", 1, "@example.com">>)>>]
    /\ db = InitialDatabase
    /\ profile = UnmountedProfile

\* the ids a request may name: those of the records and one unknown id
RequestPostIds == 1..(Len(server.posts) + 1)

NextPosts ==
    \/ \E p \in RequestPostIds : ServerTrackView(p)
    \/ \E p \in RequestPostIds : ServerTrackDownload(p)
    \/ \E p \in RequestPostIds : ServerGetPostById(p)
    \/ ServerGetAllPosts
    \/ \E u \in 1..Len(server.users) : ServerGetUserPosts(u)
    \/ \E caller \in Callers : ServerPresignedUrl(caller)
    \/ \E key \in 1..MaxSlots, ok \in BOOLEAN : StoragePut(key, ok)
    \/ \E caller \in Callers, key \in 1..MaxSlots : ServerConfirmUpload(caller, key)
    \/ \E caller \in Callers, p \in RequestPostIds : ServerDeletePost(caller, p)

SpecPosts == InitPosts /\ [][NextPosts]_vars

\* The backend's accounts, from an empty users table
NextUsers ==
    \/ \E username \in Usernames, email \in Emails : ServerSignup(username, email)
    \/ \E google_id \in GoogleIds, email \in Emails : ServerGoogleAuth(google_id, email)
    \/ \E caller \in Callers, username \in Usernames, bio \in Bios :
          ServerUpdateProfile(caller, username, bio)

SpecUsers == Init /\ [][NextUsers]_vars

\* A database in any of the schemas the migration may meet
InitMigration ==
    /\ now = 0
    /\ accessToken = NoToken
    /\ onAuthError = NoHandler
    /\ registered = 0
    /\ pathname = "/"
    /\ redirect = NoRedirect
    /\ calls = [c \in CallIds |-> IdleCall]
    /\ navbar = [mounted |-> FALSE, isAuthenticated |-> FALSE, interval |-> FALSE]
    /\ upload = UnmountedUpload
    /\ attempts = <<>>
    /\ tagsIO = InitialTags
    /\ detail = UnmountedDetail
    /\ signup = UnmountedSignup
    /\ server = EmptyServer
    /\ db \in {Database(schema) : schema \in Schemas}
    /\ profile = UnmountedProfile

NextMigration == RunMigration

SpecMigration == InitMigration /\ [][NextMigration]_vars

\* The Signup page of a running application, opened by its URL, from the Upload
\* page's overlay or from the Login page after an authentication failure
InitSignup ==
    /\ now = 0
    /\ accessToken = NoToken
    /\ onAuthError = 1
    /\ registered = 1
    /\ pathname = "/signup"
    /\ redirect \in {NoRedirect, "/upload", EncodeURIComponent("/profile")}
    /\ calls = [c \in CallIds |-> IdleCall]
    /\ navbar = [mounted |-> FALSE, isAuthenticated |-> FALSE, interval |-> FALSE]
    /\ upload = UnmountedUpload
    /\ attempts = <<>>
    /\ tagsIO = InitialTags
    /\ detail = UnmountedDetail
    /\ signup = InitialSignup
    /\ server = EmptyServer
    /\ db = InitialDatabase
    /\ profile = UnmountedProfile

NextSignup ==
    \/ OpenSignupPage
    \/ handleSignup
    \/ SignupResponse
    \/ LoginResponse
    \/ handleGoogleSignup
    \/ GoogleOnSuccess
    \/ GoogleOnError
    \/ UserinfoResponse
    \/ GoogleAuthResponse

SpecSignup == InitSignup /\ [][NextSignup]_vars

Next ==
    \/ AdvanceClock
    \/ AppEffect
    \/ AuthFetchCall
    \/ AuthFetchResponse
    \/ AuthFetchNetworkFailure
    \/ SignupLoggedIn
    \/ UserNavigate
    \/ NavbarMount
    \/ NavbarTick
    \/ NavbarUnmount
    \/ NavbarLogout

Spec == Init /\ [][Next]_vars

\* The same application with the interval of a mounted Navbar firing again
\* and again (setInterval(checkAuth, 1000) is cleared only by the cleanup)
InitNavbar ==
    /\ now = 0
    /\ accessToken = NoToken
    /\ onAuthError = 1
    /\ registered = 1
    /\ pathname = "/"
    /\ redirect = NoRedirect
    /\ calls = [c \in {1} |-> IdleCall]
    /\ navbar = [mounted |-> FALSE, isAuthenticated |-> FALSE, interval |-> FALSE]
    /\ upload = UnmountedUpload
    /\ attempts = <<>>
    /\ tagsIO = InitialTags
    /\ detail = UnmountedDetail
    /\ signup = UnmountedSignup
    /\ server = EmptyServer
    /\ db = InitialDatabase
    /\ profile = UnmountedProfile

\* one request of a page under the Navbar
NavbarPageRequest == AuthFetchStart(1, "getCurrentUser")

NextNavbar ==
    \/ AdvanceClock
    \/ NavbarPageRequest
    \/ AuthFetchResponse
    \/ AuthFetchNetworkFailure
    \/ SignupLoggedIn
    \/ UserNavigate
    \/ NavbarMount
    \/ NavbarTick
    \/ NavbarUnmount
    \/ NavbarLogout

SpecNavbar == InitNavbar /\ [][NextNavbar]_vars /\ WF_vars(NavbarTick)

\* The same application started with any string in localStorage 'access_token'
StoredStrings == Tokens \cup {EmptyToken}

InitStored ==
    /\ now = 0
    /\ accessToken \in StoredStrings \cup {NoToken}
    /\ onAuthError = NoHandler
    /\ registered = 0
    /\ pathname = "/"
    /\ redirect = NoRedirect
    /\ calls = [c \in CallIds |-> IdleCall]
    /\ navbar = [mounted |-> FALSE, isAuthenticated |-> FALSE, interval |-> FALSE]
    /\ upload = UnmountedUpload
    /\ attempts = <<>>
    /\ tagsIO = InitialTags
    /\ detail = UnmountedDetail
    /\ signup = UnmountedSignup
    /\ server = EmptyServer
    /\ db = InitialDatabase
    /\ profile = UnmountedProfile

SpecStored == InitStored /\ [][Next]_vars

\* The timer against an in-flight request: the Profile page of a running
\* application (handler registered, a token that passed Profile's
\* isAuthenticated check, Navbar mounted); nobody logs in or navigates
InitRace ==
    /\ now = 0
    /\ accessToken \in {t \in Tokens : ~isTokenExpiredAt(t, 0)}
    /\ onAuthError = 1
    /\ registered = 1
    /\ pathname = "/profile"
    /\ redirect = NoRedirect
    /\ calls = [c \in CallIds |-> IdleCall]
    /\ navbar = [mounted |-> TRUE, isAuthenticated |-> TRUE, interval |-> TRUE]
    /\ upload = UnmountedUpload
    /\ attempts = <<>>
    /\ tagsIO = InitialTags
    /\ detail = UnmountedDetail
    /\ signup = UnmountedSignup
    /\ server = EmptyServer
    /\ db = InitialDatabase
    /\ profile = UnmountedProfile

NextRace ==
    \/ AdvanceClock
    \/ AppEffect
    \/ AuthFetchCall
    \/ AuthFetchResponse
    \/ AuthFetchNetworkFailure
    \/ NavbarTick
    \/ NavbarUnmount
    \/ NavbarMount

SpecRace == InitRace /\ [][NextRace]_vars

(* ====================== properties of the session guard ============== *)

\* C1: when authenticatedFetch is called while the stored token is locally
\* expired, the token is removed, the registered callback is invoked (the
\* user is sent to /login with the current path as redirect), the call
\* rejects with the session-expired error and no request is sent.
LocalExpiryRejects ==
    /\ [][\A c \in CallIds :
            (/\ calls[c].pc = "idle" /\ calls'[c].pc # "idle"
             /\ accessToken # NoToken /\ isTokenExpiredAt(accessToken, now))
            => /\ accessToken' = NoToken
               /\ calls'[c].pc = "rejected"
               /\ calls'[c].error = SessionExpired
               /\ calls'[c].nsent = 0
               /\ calls'[c].request = NoRequest
               /\ onAuthError # NoHandler =>
                      /\ calls'[c].invoked = <<onAuthError>>
                      /\ pathname' = "/login"
                      /\ redirect' = EncodeURIComponent(pathname)]_vars
    /\ [](\A c \in CallIds :
            (calls[c].pc = "rejected" /\ calls[c].status = 0 /\ calls[c].error = SessionExpired)
            => calls[c].nsent = 0)

LocalExpiryWitness ==
    \E c \in CallIds :
        /\ calls[c].pc = "rejected" /\ calls[c].status = 0
        /\ calls[c].error = SessionExpired /\ calls[c].nsent = 0
        /\ calls[c].invoked # <<>>
        /\ accessToken = NoToken /\ pathname = "/login"

\* C2: when the server answers a request of authenticatedFetch with 401, the
\* token is removed, the callback invoked and the call rejects; with any
\* other status the response is returned and the token is left as it was.
UnauthorizedClearsOthersReturn ==
    [][\A c \in CallIds :
          (calls[c].pc = "sent" /\ calls'[c].pc # "sent" /\ calls'[c].status \in Statuses)
          => IF calls'[c].status = 401
             THEN /\ accessToken' = NoToken
                  /\ calls'[c].pc = "rejected"
                  /\ calls'[c].error = SessionExpired
                  /\ calls'[c].invoked = (IF onAuthError # NoHandler THEN <<onAuthError>> ELSE <<>>)
                  /\ onAuthError # NoHandler => pathname' = "/login"
             ELSE /\ calls'[c].pc = "returned"
                  /\ calls'[c].error = ""
                  /\ calls'[c].invoked = <<>>
                  /\ accessToken' = accessToken
                  /\ pathname' = pathname /\ redirect' = redirect]_vars

UnauthorizedWitness ==
    \E c \in CallIds :
        /\ calls[c].pc = "rejected" /\ calls[c].status = 401 /\ calls[c].invoked # <<>>
        /\ calls[c].error = SessionExpired
        /\ accessToken = NoToken /\ pathname = "/login"

\* C3: no request that carries the bearer token leaves while that token is
\* locally expired, whether it is made through the API service or by the
\* Upload page (slot request and confirmation).
EveryBearerRequestGuarded ==
    /\ \A c \in CallIds : ~calls[c].sentExpired
    /\ \A a \in DOMAIN attempts : ~attempts[a].sentExpired

\* C4: every token-bearing request answered with 401 clears the token and
\* redirects to login through the callback instead of showing the error
\* inline, in the Upload flow as for the API service.
UnauthorizedAlwaysRedirects ==
    [][/\ \A c \in CallIds :
            (calls[c].pc = "sent" /\ calls'[c].pc # "sent" /\ calls'[c].status = 401)
            => accessToken' = NoToken /\ pathname' = "/login"
       /\ \A a \in DOMAIN attempts :
            (/\ attempts[a].pc \in {"slot", "confirm"} /\ attempts'[a].pc # attempts[a].pc
             /\ (attempts'[a].slotStatus = 401 \/ attempts'[a].confirmStatus = 401))
            => /\ accessToken' = NoToken
               /\ pathname' = "/login"
               /\ upload'.error = upload.error]_vars

\* C5: the Navbar's timer and the handling of a 401 may run in either order
\* and any number of times: once a 401 has been handled the token is cleared
\* and the user is at /login, and the next tick of the timer shows the user
\* as logged out.
RaceConverges ==
    /\ []((\E c \in CallIds : calls[c].status = 401)
            => accessToken = NoToken /\ pathname = "/login")
    /\ [][((\E c \in CallIds : calls[c].status = 401) /\ navbar' # navbar)
            => ~navbar'.isAuthenticated]_vars

\* the timer ran first and still shows the user as logged in when the 401 is handled
RaceWitness ==
    /\ \E c \in CallIds : calls[c].pc = "rejected" /\ calls[c].status = 401
    /\ navbar.mounted /\ navbar.isAuthenticated
    /\ now > 0
    /\ accessToken = NoToken /\ pathname = "/login"

\* C6: one callback is registered at a time: an authentication failure
\* invokes the most recently registered handler and no earlier one.
OnlyLatestHandlerInvoked ==
    /\ [](onAuthError = registered)
    /\ [][\A c \in CallIds :
            calls'[c].invoked # calls[c].invoked
            => registered > 0 /\ calls'[c].invoked = <<registered>>]_vars

LatestHandlerWitness ==
    /\ registered = 2
    /\ \E c \in CallIds : calls[c].pc = "rejected" /\ calls[c].invoked = <<2>>

\* C7: a token with expiry claim exp (seconds) is valid at every instant
\* strictly before exp*1000 ms and expired from exp*1000 ms on, both for
\* authenticatedFetch and for tokenManager.isAuthenticated.
HasExp(token) == token.kind = "jwt" /\ "exp" \in DOMAIN token.payload

ExpiryBoundary ==
    /\ [][\A c \in CallIds :
            (calls[c].pc = "idle" /\ calls'[c].pc # "idle" /\ HasExp(accessToken))
            => (calls'[c].pc = "sent" <=> now < accessToken.payload.exp * 1000)]_vars
    /\ [][(navbar' # navbar /\ navbar'.mounted /\ accessToken' = accessToken
             /\ HasExp(accessToken))
            => (navbar'.isAuthenticated <=> now < accessToken.payload.exp * 1000)]_vars

\* a request was sent with the token before its expiry, and at the instant of
\* expiry the Navbar shows the user as logged out
ExpiryBoundaryWitness ==
    /\ now = 1000
    /\ accessToken = [kind |-> "jwt", payload |-> [exp |-> 1]]
    /\ calls[1].pc = "sent"
    /\ "authorization" \in DOMAIN calls[1].request.headers
    /\ calls[1].request.headers["authorization"] = Bearer(accessToken)
    /\ navbar.mounted /\ ~navbar.isAuthenticated

\* C8: called with a stored token that is not locally expired,
\* authenticatedFetch sends exactly one request; it carries
\* Authorization: Bearer <token> and the caller's method, body and other headers.
BearerAttached ==
    /\ [][\A c \in CallIds :
            (/\ calls[c].pc = "idle" /\ calls'[c].pc # "idle"
             /\ accessToken # NoToken /\ ~isTokenExpiredAt(accessToken, now))
            => /\ calls'[c].pc = "sent"
               /\ calls'[c].nsent = 1
               /\ \E op \in ApiOps :
                     LET options == ApiOptions(op)
                         request == calls'[c].request IN
                     /\ request.url = op
                     /\ request.method = options.method
                     /\ request.body = options.body
                     /\ DOMAIN request.headers =
                            {LowerCase(k) : k \in DOMAIN options.headers} \cup {"authorization"}
                     /\ request.headers["authorization"] = <<"Bearer", accessToken>>
                     /\ \A k \in DOMAIN options.headers :
                            LowerCase(k) # "authorization"
                            => request.headers[LowerCase(k)] = options.headers[k]]_vars
    /\ [](\A c \in CallIds : calls[c].nsent <= 1)
    /\ [][\A c \in CallIds : calls[c].nsent = 1 => calls'[c].nsent = 1]_vars

BearerWitness ==
    \E c \in CallIds :
        /\ calls[c].pc = "sent" /\ calls[c].nsent = 1
        /\ calls[c].request.url = "updateProfile"
        /\ DOMAIN calls[c].request.headers = {"authorization", "content-type"}
        /\ accessToken # NoToken

(* ====================== properties of the upload ===================== *)
UploadSteps == <<"slot", "put", "confirm">>

IsPrefix(s, t) == Len(s) <= Len(t) /\ \A i \in 1..Len(s) : s[i] = t[i]

PcRank(pc) ==
    CASE pc = "slot" -> 1 [] pc = "put" -> 2 [] pc = "confirm" -> 3 [] OTHER -> 4

\* C9: an upload attempt moves only forward: slot request, then the storage
\* PUT only after the slot request succeeded, then the confirmation only
\* after the PUT succeeded; each is sent at most once and none is repeated.
UploadOnlyForward ==
    /\ [](\A a \in DOMAIN attempts :
            /\ IsPrefix(attempts[a].sent, UploadSteps)
            /\ Len(attempts[a].sent) >= 2 => Ok(attempts[a].slotStatus)
            /\ Len(attempts[a].sent) >= 3 => Ok(attempts[a].putStatus))
    /\ [][\A a \in DOMAIN attempts :
            /\ a \in DOMAIN attempts'
            /\ IsPrefix(attempts[a].sent, attempts'[a].sent)
            /\ PcRank(attempts'[a].pc) >= PcRank(attempts[a].pc)]_vars

UploadForwardWitness ==
    \E a \in DOMAIN attempts :
        /\ attempts[a].pc = "done"
        /\ attempts[a].sent = UploadSteps
        /\ pathname = "/"

\* C10: when the storage PUT of an attempt fails, its confirmation is never
\* sent, an error is shown, the uploading flag returns to false and nothing
\* is retried (no step of the attempt is resent, no new attempt begins).
PutFailed(attempt) ==
    Len(attempt.sent) >= 2 /\ attempt.putStatus # -1 /\ ~Ok(attempt.putStatus)

PutFailureStops ==
    /\ [](\A a \in DOMAIN attempts :
            PutFailed(attempts[a])
            => attempts[a].sent = <<"slot", "put">> /\ attempts[a].pc = "failed")
    /\ [][\A a \in DOMAIN attempts :
            (attempts[a].pc = "put" /\ attempts'[a].pc # "put"
             /\ ~Ok(attempts'[a].putStatus))
            => /\ upload'.error # ""
               /\ ~upload'.isUploading
               /\ Len(attempts') = Len(attempts)]_vars

PutFailureWitness ==
    \E a \in DOMAIN attempts :
        /\ attempts[a].pc = "failed" /\ attempts[a].putStatus = 500
        /\ upload.mounted /\ upload.error = S3Failed /\ ~upload.isUploading

\* the content types of the model that start with the image prefix
ImageTypes == {"image/png"}

\* C11: after any sequence of selections, drops, cancels and clicks on Share,
\* the file an upload slot is requested for has a content type that starts
\* with "image/" and a size of at most 50 MB; the same holds of the file the
\* page holds as selected.
SlotOnlyForValidImage ==
    /\ [](upload.selectedFile # NoFile
            => /\ upload.selectedFile.type \in ImageTypes
               /\ upload.selectedFile.size <= 50 * 1024 * 1024)
    /\ [](\A a \in DOMAIN attempts :
            attempts[a].file # NoFile
            => /\ attempts[a].file.type \in ImageTypes
               /\ attempts[a].file.size <= 50 * 1024 * 1024)
    /\ [][Len(attempts') > Len(attempts)
            => /\ attempts'[Len(attempts')].sent = <<"slot">>
               /\ attempts'[Len(attempts')].file = upload.selectedFile
               /\ upload.selectedFile.type \in ImageTypes
               /\ upload.selectedFile.size <= 50 * 1024 * 1024]_vars

\* a slot is being requested for an image of exactly the ceiling's size
SlotForValidImageWitness ==
    \E a \in DOMAIN attempts :
        /\ attempts[a].pc = "slot"
        /\ attempts[a].file = [type |-> "image/png", size |-> MaxFileSize]
        /\ upload.isUploading

(* ========================= properties of the tags ==================== *)

\* C12: tags travel as one comma-separated string and are normalised only at
\* read time: a confirm-upload body carries the tags exactly as the string
\* that was typed (unsplit), and the reader's list is the comma-separated
\* parts of the stored string, each trimmed, the empty ones removed.
TagsNormalisedOnlyAtRead ==
    /\ (tagsIO.body # NoBody /\ tagsIO.body.tags # Undefined)
          => tagsIO.body.tags = [kind |-> "string", value |-> tagsIO.body.given]
    /\ (tagsIO.post # Null /\ tagsIO.post.tags # Undefined)
          => tagsIO.tagsArray =
                SelectSeq([i \in 1..Len(Split(tagsIO.post.tags.value, ",")) |->
                              TrimTag(Split(tagsIO.post.tags.value, ",")[i])],
                          LAMBDA tag : tag # <<>>)

(* ===================== properties of re-authentication =============== *)

\* C13: whenever the application sends the user to /login from a page P (the
\* auth-error callback, or the Upload page finding no token), the login URL
\* carries P as its redirect parameter; and a successful signup or Google
\* signup navigates to the redirect value of its URL, or to "/" when the URL
\* has none.
RedirectPreserved ==
    [][/\ (pathname' = "/login" /\ pathname # "/login")
            => /\ redirect' # NoRedirect
               /\ SearchParamsGet(redirect') = pathname
       /\ (\/ (signup.form.pc = "login" /\ signup'.form.pc = "done")
           \/ (signup.google.pc = "googleAuth" /\ signup'.google.pc = "done"))
            => pathname' = (IF redirect = NoRedirect THEN "/" ELSE SearchParamsGet(redirect))]_vars

(* ====================== properties of the counters =================== *)

\* C14: a visitor with no token, or with a locally expired token, who opens
\* or downloads a post has the view (download) increment request sent, and
\* the visit neither clears the stored token nor invokes the
\* re-authentication callback (the location stays the post's).
IncrementsSentUnauthenticated ==
    [][\A c \in DOMAIN calls :
          (/\ calls[c].pc = "idle" /\ calls'[c].pc # "idle"
           /\ (accessToken = NoToken \/ isTokenExpiredAt(accessToken, now)))
          => /\ calls'[c].pc = "sent"
             /\ calls'[c].request.url \in {"trackView", "trackDownload"}
             /\ accessToken' = accessToken
             /\ calls'[c].invoked = <<>>
             /\ pathname' = pathname /\ redirect' = redirect]_vars

ReadOps == {"getAllPosts", "getUserPosts", "getPostById"}

\* C15: for every post the view counter and the download counter never
\* decrease, whatever the operation; and a read-only fetch (feed, by-user
\* list, single-post lookup) leaves every post's counters as they were.
CountersNeverDecrease ==
    /\ [][\A p \in 1..Len(server.posts) :
            /\ p \in 1..Len(server'.posts)
            /\ (~server.posts[p].deleted /\ ~server'.posts[p].deleted)
                  => /\ server'.posts[p].views >= server.posts[p].views
                     /\ server'.posts[p].downloads >= server.posts[p].downloads]_vars
    /\ [][(server' # server /\ server'.last.op \in ReadOps)
            => server'.posts = server.posts]_vars

\* a post counted twice as viewed and once as downloaded has just been looked
\* up, and the lookup reported the two views
CountersWitness ==
    \E p \in 1..Len(server.posts) :
        /\ ~server.posts[p].deleted
        /\ server.posts[p].views = 2 /\ server.posts[p].downloads = 1
        /\ server.last = [op |-> "getPostById", caller |-> 0, target |-> p,
                          status |-> 200, value |-> 2]

\* C16: every view (download) increment call on an existing post raises that
\* counter by exactly one, leaves the other counter alone and returns the new
\* count; a repeated call is counted again.
EachIncrementAddsOne ==
    [][(server' # server /\ server'.last.op \in {"view", "download"})
          => LET p == server'.last.target IN
             IF p \in 1..Len(server.posts) /\ ~server.posts[p].deleted
             THEN /\ server'.last.status = 200
                  /\ IF server'.last.op = "view"
                     THEN /\ server'.posts[p].views = server.posts[p].views + 1
                          /\ server'.last.value = server.posts[p].views + 1
                          /\ server'.posts[p].downloads = server.posts[p].downloads
                     ELSE /\ server'.posts[p].downloads = server.posts[p].downloads + 1
                          /\ server'.last.value = server.posts[p].downloads + 1
                          /\ server'.posts[p].views = server.posts[p].views
             ELSE server'.last.status = 404 /\ server'.posts = server.posts]_vars

\* the second of two successive view calls returned 2
SecondIncrementWitness ==
    /\ server.last.op = "view" /\ server.last.status = 200 /\ server.last.value = 2
    /\ server.posts[server.last.target].views = 2

\* C17: a confirm-upload call by an authenticated caller creates the Post
\* record for the URL it names whether or not an object was ever stored for
\* that slot.
ConfirmIgnoresStorage ==
    [][(server' # server /\ server'.last.op = "confirm-upload"
          /\ server'.last.caller # Anonymous)
          => /\ server'.last.status = 200
             /\ Len(server'.posts) = Len(server.posts) + 1
             /\ server'.posts[Len(server'.posts)].user_id = server'.last.caller
             /\ server'.posts[Len(server'.posts)].image = server'.last.target
             /\ server'.objects = server.objects]_vars

\* a Post record exists for a slot whose storage write failed
ConfirmWithoutObjectWitness ==
    \E p \in 1..Len(server.posts) :
        /\ ~server.posts[p].deleted
        /\ server.posts[p].image \in 1..server.issued
        /\ server.posts[p].image \notin server.objects
        /\ server.last.op = "confirm-upload" /\ server.last.status = 200

(* ======================= properties of the accounts ================== *)

\* C18: in every reachable state every User record has a password hash or an
\* external-identity (google) id, or both, after any sequence of signups,
\* Google logins and profile edits.
EveryUserHasCredential ==
    \A u \in 1..Len(server.users) :
        server.users[u].password \/ server.users[u].google_id # 0

\* an account created by a Google login (no password hash) next to a password
\* account that was linked to a Google identity and whose profile was edited
EveryUserWitness ==
    \E u, v \in 1..Len(server.users) :
        /\ ~server.users[u].password /\ server.users[u].google_id # 0
        /\ server.users[v].password /\ server.users[v].google_id # 0
        /\ server.users[v].bio = "hello"

(* ======================== properties of the signup =================== *)

\* C19: the /auth/google call is made only after the Google userinfo request
\* for the obtained access token succeeded (and is the only request that
\* follows it), and the Google flow stores a session token only once the
\* backend has accepted the assertion: the token of that answer.
AssertionVerifiedFirst ==
    /\ [](\A i \in 1..Len(signup.google.sent) :
             signup.google.sent[i] = "googleAuth"
             => /\ i = 2 /\ signup.google.sent[1] = "userinfo"
                /\ signup.google.first >= 200 /\ signup.google.first <= 299)
    /\ [][(signup.google.pc = "userinfo" /\ signup'.google.pc # "userinfo")
            => /\ accessToken' = accessToken
               /\ (signup'.google.first >= 200 /\ signup'.google.first <= 299)
                     <=> signup'.google.sent = <<"userinfo", "googleAuth">>]_vars
    /\ [][(signup.google.pc = "googleAuth" /\ signup'.google.pc # "googleAuth")
            => IF signup'.google.second >= 200 /\ signup'.google.second <= 299
               THEN accessToken' = signup'.google.token
               ELSE accessToken' = accessToken]_vars
    /\ [][(signup'.google # signup.google /\ signup'.form = signup.form
             /\ signup.google.pc # "googleAuth")
            => accessToken' = accessToken]_vars

\* the Google flow ran to its end: userinfo, then /auth/google, then the token
\* of the backend's answer stored
AssertionVerifiedWitness ==
    /\ signup.google.pc = "done"
    /\ signup.google.sent = <<"userinfo", "googleAuth">>
    /\ signup.google.first = 200 /\ signup.google.second = 200
    /\ accessToken = signup.google.token /\ accessToken # NoToken
    /\ pathname = "/upload"

\* C20: in the signup flow a token is stored exactly when the signup call and
\* the login call that follows it both succeeded, and it is the login's
\* access_token; when either call fails no token is stored, no further call
\* is made and the page shows the error.
SignupThenLoginStoresToken ==
    /\ [](signup.form.pc = "done"
            => /\ signup.form.sent = <<"signup", "login">>
               /\ signup.form.first >= 200 /\ signup.form.first <= 299
               /\ signup.form.second >= 200 /\ signup.form.second <= 299)
    /\ [](Len(signup.form.sent) = 2
            => signup.form.first >= 200 /\ signup.form.first <= 299)
    /\ [][(signup.form.pc = "signup" /\ signup'.form.pc # "signup")
            => /\ accessToken' = accessToken
               /\ IF signup'.form.first >= 200 /\ signup'.form.first <= 299
                  THEN signup'.form.pc = "login"
                  ELSE /\ signup'.form.pc = "failed"
                       /\ signup'.form.sent = <<"signup">>
                       /\ signup'.mounted => (signup'.error # "" /\ ~signup'.isLoading)]_vars
    /\ [][(signup.form.pc = "login" /\ signup'.form.pc # "login")
            => IF signup'.form.second >= 200 /\ signup'.form.second <= 299
               THEN signup'.form.pc = "done" /\ accessToken' = signup'.form.token
               ELSE /\ signup'.form.pc = "failed"
                    /\ accessToken' = accessToken
                    /\ signup'.mounted => (signup'.error # "" /\ ~signup'.isLoading)]_vars
    /\ [][(signup'.form # signup.form /\ signup'.google = signup.google
             /\ signup.form.pc # "login")
            => accessToken' = accessToken]_vars

\* signup and login both answered 200 and the login's token is the stored one
SignupThenLoginWitness ==
    /\ signup.form.pc = "done"
    /\ signup.form.first = 200 /\ signup.form.second = 200
    /\ accessToken = signup.form.token /\ accessToken # NoToken
    /\ ~signup.mounted /\ pathname = "/profile"

(* ====================== properties of the migration ================== *)

\* C21: migration 001 is safe to run again: once a run of it has succeeded,
\* every later run succeeds too and leaves the schema exactly as that run
\* left it, so two runs give the schema one run gives.
MigrationIdempotent ==
    /\ [](\A i, j \in 1..Len(db.history) :
            (i < j /\ ~db.history[i].failed)
            => /\ ~db.history[j].failed
               /\ db.history[j].schema = db.history[i].schema)
    /\ [](Len(db.history) > 0 => db.schema = db.history[Len(db.history)].schema)
    /\ [][(Len(db.history) > 0 /\ ~db.history[Len(db.history)].failed /\ db' # db)
            => db'.schema = db.schema]_vars

\* the migration ran twice against the schema that preceded it: the first run
\* added the columns and the index and made password nullable
MigrationWitness ==
    /\ Len(db.history) = 2
    /\ db.initial.users.kind = "table" /\ db.initial.posts.kind = "table"
    /\ db.initial.users.columns.google_id = [kind |-> "absent"]
    /\ db.initial.users.columns.password.kind = "column"
    /\ db.initial.users.columns.password.notNull
    /\ db.initial.posts.columns.title = [kind |-> "absent"]
    /\ ~db.history[1].failed /\ ~db.history[2].failed
    /\ db.schema.users.columns.google_id.unique
    /\ ~db.schema.users.columns.password.notNull
    /\ db.schema.users.indexes = {"idx_users_google_id"}
    /\ db.schema.posts.columns.title.type = "VARCHAR"
    /\ db.schema.posts.columns.tags.type = "VARCHAR"

(* ====================== properties of the post page ================== *)

\* C22: for a displayed post PostDetail sends at most one view-tracking
\* request, whatever the order of the lookup's answers (the load effect may
\* run twice), the tracking answers, the download answers and the renders.
ViewTrackedAtMostOnce == detail.viewsSent <= 1

\* C26: a view-tracking request is sent only once the single-post lookup for
\* the displayed id has succeeded; a failed lookup tracks no view, a post
\* handed over in the navigation state included.
ViewTrackedOnlyAfterLookup ==
    [][detail'.viewsSent > detail.viewsSent => detail'.lookedUp]_vars

\* C29: each click on Download leads to at most one download increment, sent
\* only after that click's image fetch succeeded (none when it failed); and
\* when the increment call fails (rejected before it is sent, rejected by a
\* 401 or a network failure, or answered with a non-ok status) the displayed
\* post keeps its download count and neither an error nor an alert appears.
DownloadTrackedOncePerClick ==
    /\ [](/\ detail.imagesOk + detail.imagesFailed + detail.fetching = detail.clicks
          /\ detail.downloadsSent + detail.timers <= detail.imagesOk
          /\ detail.alerts = detail.imagesFailed
          /\ Cardinality(detail.downloadCalls) <= detail.downloadsSent)
    /\ [][detail'.downloadsSent > detail.downloadsSent
            => /\ detail'.downloadsSent = detail.downloadsSent + 1
               /\ detail'.timers = detail.timers - 1
               /\ \E c \in DOMAIN calls :
                     /\ calls[c].pc = "idle" /\ calls'[c].pc = "sent"
                     /\ calls'[c].request.url = "trackDownload"]_vars
    /\ [][(detail'.timers < detail.timers /\ detail'.downloadsSent = detail.downloadsSent)
            => /\ detail'.post = detail.post
               /\ detail'.error = detail.error /\ detail'.alerts = detail.alerts]_vars
    /\ [][\A c \in detail.downloadCalls :
            (c \notin detail'.downloadCalls
             /\ ~(calls[c].pc = "returned" /\ calls[c].status >= 200 /\ calls[c].status <= 299))
            => /\ detail'.post = detail.post
               /\ detail'.error = detail.error /\ detail'.alerts = detail.alerts]_vars

\* a click whose image was fetched and whose increment was answered with 500:
\* the page still shows the post with no download counted and no error
DownloadTrackedWitness ==
    /\ DetailShown /\ detail.clicks = 1 /\ detail.imagesOk = 1
    /\ detail.downloadsSent = 1 /\ detail.downloadCalls = {} /\ detail.timers = 0
    /\ detail.post # [kind |-> "null"] /\ detail.post.downloads = 0
    /\ detail.error = "" /\ detail.alerts = 0
    /\ \A c \in DOMAIN calls : calls[c].pc = "idle"


\* C23: Saving the profile sends only the changed fields: when the click on Save
\* sends the PATCH, its body holds full_name, username or bio exactly when the
\* form's value of that field differs from the value the loaded user shows for
\* it (the empty string for a user whose bio is absent).
SaveSendsOnlyChangedFields ==
    [][(profile.saveCall = 0 /\ profile'.saveCall # 0) =>
          \A f \in ProfileFields :
              f \in DOMAIN profile'.body <=>
                  FieldDiffers_Displayed(ProfileForm(profile), profile.user, f)]_vars


\* the token a request carries in its Authorization header
AttachedToken(request) ==
    IF "authorization" \in DOMAIN request.headers
    THEN request.headers["authorization"][2] ELSE NoToken

\* C24: a 401 handled by authenticatedFetch removes only the token that was
\* attached to that request: when the stored token is another one (saved by a
\* fresh login while the request was in flight), it is still stored afterwards.
UnauthorizedRemovesOnlyAttachedToken ==
    [][\A c \in CallIds :
          (/\ calls[c].pc = "sent" /\ calls'[c].pc = "rejected"
           /\ calls'[c].status = Unauthorized
           /\ accessToken # NoToken
           /\ accessToken # AttachedToken(calls[c].request))
          => accessToken' = accessToken]_vars

\* decodeJWT returned null, or an object without exp
Undecodable(token) ==
    decodeJWT(token) = Null \/ "exp" \notin DOMAIN decodeJWT(token)

\* C25: a stored string that cannot be decoded, or whose payload has no exp,
\* is treated as expired: isAuthenticated() is false, and a call of
\* authenticatedFetch removes it, invokes the registered callback and rejects
\* without sending; decodeJWT returns a payload or null for every string.
UndecodableTreatedAsExpired ==
    /\ [](accessToken # NoToken
            => /\ decodeJWT(accessToken) \in Payloads \cup {Null}
               /\ (Undecodable(accessToken) => ~isAuthenticated))
    /\ [][\A c \in CallIds :
            (/\ calls[c].pc = "idle" /\ calls'[c].pc # "idle"
             /\ accessToken # NoToken /\ Undecodable(accessToken))
            => /\ accessToken' = NoToken
               /\ calls'[c].pc = "rejected"
               /\ calls'[c].nsent = 0
               /\ calls'[c].error = SessionExpired
               /\ calls'[c].invoked = InvokedHandlers]_vars

\* C25 for the stored strings that are not empty
NonEmptyUndecodableTreatedAsExpired ==
    /\ [](accessToken # NoToken
            => /\ decodeJWT(accessToken) \in Payloads \cup {Null}
               /\ (Undecodable(accessToken) => ~isAuthenticated))
    /\ [][\A c \in CallIds :
            (/\ calls[c].pc = "idle" /\ calls'[c].pc # "idle"
             /\ Truthy(accessToken) /\ Undecodable(accessToken))
            => /\ accessToken' = NoToken
               /\ calls'[c].pc = "rejected"
               /\ calls'[c].nsent = 0
               /\ calls'[c].error = SessionExpired
               /\ calls'[c].invoked = InvokedHandlers]_vars

\* C27: each call of authenticatedFetch invokes the auth-error callback at most
\* once; with no callback registered, the locally-expired path and the 401
\* path still remove the token and reject with the session-expired error.
CallbackAtMostOncePerCall ==
    /\ [](\A c \in CallIds : Len(calls[c].invoked) <= 1)
    /\ [][\A c \in CallIds :
            calls'[c].invoked # calls[c].invoked
            => /\ calls[c].invoked = <<>>
               /\ calls[c].pc \in {"idle", "sent"} /\ calls'[c].pc = "rejected"]_vars
    /\ [][\A c \in CallIds :
            (/\ onAuthError = NoHandler
             /\ \/ calls[c].pc = "idle" /\ calls'[c].pc # "idle"
                   /\ Truthy(accessToken) /\ isTokenExpired(accessToken)
                \/ calls[c].pc = "sent" /\ calls'[c].pc # "sent"
                   /\ calls'[c].status = Unauthorized)
            => /\ accessToken' = NoToken
               /\ calls'[c].pc = "rejected"
               /\ calls'[c].error = SessionExpired
               /\ calls'[c].invoked = <<>>
               /\ pathname' = pathname /\ redirect' = redirect]_vars

\* with no callback registered a call found the stored token locally expired:
\* the token is gone, nothing was sent, the call rejected, the user is where
\* they were
NoCallbackWitness ==
    /\ onAuthError = NoHandler /\ registered = 0
    /\ accessToken = NoToken /\ pathname = "/"
    /\ \E c \in CallIds :
          /\ calls[c].pc = "rejected" /\ calls[c].status = 0
          /\ calls[c].nsent = 0
          /\ calls[c].error = SessionExpired /\ calls[c].invoked = <<>>

\* C28: called with no stored token, authenticatedFetch sends the request
\* without an Authorization header, leaves storage and the location as they
\* are and invokes no callback before sending; such a request's call invokes
\* the callback only when the server answers it with 401.
NoTokenRequestSentBare ==
    /\ [][\A c \in CallIds :
            (calls[c].pc = "idle" /\ calls'[c].pc # "idle" /\ accessToken = NoToken)
            => /\ calls'[c].pc = "sent"
               /\ calls'[c].nsent = 1
               /\ "authorization" \notin DOMAIN calls'[c].request.headers
               /\ accessToken' = NoToken
               /\ calls'[c].invoked = <<>>
               /\ pathname' = pathname /\ redirect' = redirect]_vars
    /\ [][\A c \in CallIds :
            (/\ calls[c].pc = "sent"
             /\ "authorization" \notin DOMAIN calls[c].request.headers
             /\ calls'[c].pc # "sent")
            => IF calls'[c].status = Unauthorized
               THEN calls'[c].invoked = InvokedHandlers
               ELSE calls'[c].invoked = <<>> /\ accessToken' = accessToken]_vars

\* with a callback registered and nothing stored, the request is in flight
\* without Authorization, and the callback has not run
NoTokenWitness ==
    /\ registered = 1 /\ onAuthError = 1 /\ accessToken = NoToken
    /\ pathname = "/" /\ redirect = NoRedirect
    /\ \E c \in CallIds :
          /\ calls[c].pc = "sent" /\ calls[c].nsent = 1
          /\ "authorization" \notin DOMAIN calls[c].request.headers
          /\ calls[c].invoked = <<>>

\* C30: while a Navbar is mounted and its timer keeps firing, whenever the
\* flag it shows differs from tokenManager.isAuthenticated() (the token was
\* saved, removed, or its expiry passed) the flag eventually equals it again;
\* once the Navbar is unmounted no timer of it is left to fire.
NavbarFollowsToken ==
    /\ (navbar.mounted /\ navbar.isAuthenticated # isAuthenticated)
          ~> (~navbar.mounted \/ navbar.isAuthenticated = isAuthenticated)
    /\ [](~navbar.mounted => ~navbar.interval)
    /\ [][~navbar.interval => (navbar' = navbar \/ navbar'.mounted # navbar.mounted)]_vars

\* the expiry of the stored token has passed under a mounted Navbar that
\* still shows the user as logged in: the next firing of the timer is due
NavbarFollowsWitness ==
    /\ navbar.mounted /\ navbar.interval /\ navbar.isAuthenticated
    /\ Truthy(accessToken) /\ isTokenExpired(accessToken) /\ now > 0
====
